---- MODULE Spec2Model ----
(***************************************************************************)
(* install-this-mcp: the catalog builder (index.js), the metadata resolver *)
(* and the worker's fetch handler (worker.ts).                             *)
(*                                                                         *)
(* A JavaScript string is modelled as what it is: a sequence of UTF-16     *)
(* code units (numbers in 0..65535).  S("abc") turns an ASCII literal of   *)
(* the source into that sequence.                                          *)
(***************************************************************************)
EXTENDS Integers, Sequences, FiniteSets, TLC

\* A completed call of generateMCPConfig made before the current one, when the
\* caller kept it: its arguments and what it returned or threw.
VARIABLE earlier

(***************************************************************************)
(* String literals                                                         *)
(***************************************************************************)

\* The printable ASCII characters in code order: 32 (space) to 95 (_), and
\* 97 (a) to 126 (~).  The backtick, 96, is written as the number.
AsciiLow ==
  " !\"#$%&'()*+,-./0123456789:;<=>?@ABCDEFGHIJKLMNOPQRSTUVWXYZ[\\]^_"

AsciiHigh == "abcdefghijklmnopqrstuvwxyz{|}~"

\* Code unit of a one-character ASCII string.
Ord ==
  [c \in {SubSeq(AsciiLow, i, i) : i \in 1..Len(AsciiLow)} \cup
         {SubSeq(AsciiHigh, i, i) : i \in 1..Len(AsciiHigh)} |->
     IF \E i \in 1..Len(AsciiLow) : SubSeq(AsciiLow, i, i) = c
     THEN 31 + CHOOSE i \in 1..Len(AsciiLow) : SubSeq(AsciiLow, i, i) = c
     ELSE 96 + CHOOSE i \in 1..Len(AsciiHigh) : SubSeq(AsciiHigh, i, i) = c]

\* The code units of an ASCII literal.
S(lit) == [i \in 1..Len(lit) |-> Ord[SubSeq(lit, i, i)]]

RECURSIVE Concat(_)
\* Template-literal / Array.join("") concatenation of a sequence of strings.
Concat(parts) ==
  IF parts = <<>> THEN <<>> ELSE Head(parts) \o Concat(Tail(parts))

\* String.prototype.includes on code-unit sequences.
StartsWithAt(s, sub, i) ==
  /\ i + Len(sub) - 1 <= Len(s)
  /\ SubSeq(s, i, i + Len(sub) - 1) = sub

Includes(s, sub) == \E i \in 1..(Len(s) + 1) : StartsWithAt(s, sub, i)

\* 0 when the code unit c does not occur in s.
LastIndexOf(s, c) ==
  IF \E i \in 1..Len(s) : s[i] = c
  THEN CHOOSE i \in 1..Len(s) : s[i] = c /\ \A j \in (i + 1)..Len(s) : s[j] # c
  ELSE 0

(***************************************************************************)
(* Results of calls that can throw                                         *)
(***************************************************************************)

Ok(v) == [threw |-> FALSE, error |-> "", value |-> v]

Throw(e) == [threw |-> TRUE, error |-> e, value |-> <<>>]

(***************************************************************************)
(* Code-unit classes                                                       *)
(***************************************************************************)

IsHighSurrogate(c) == c >= 55296 /\ c <= 56319   \* 0xD800..0xDBFF

IsLowSurrogate(c) == c >= 56320 /\ c <= 57343    \* 0xDC00..0xDFFF

\* s[i] is a surrogate that is not half of a well-formed pair.
IsLoneSurrogateAt(s, i) ==
  \/ /\ IsHighSurrogate(s[i])
     /\ ~(i < Len(s) /\ IsLowSurrogate(s[i + 1]))
  \/ /\ IsLowSurrogate(s[i])
     /\ ~(i > 1 /\ IsHighSurrogate(s[i - 1]))

HexUpper == S("0123456789ABCDEF")

HexLower == S("0123456789abcdef")

\* Two upper-case hex digits of a byte.
Hex2(b) == <<HexUpper[(b \div 16) + 1], HexUpper[(b % 16) + 1]>>

\* Four lower-case hex digits of a code unit.
Hex4(c) ==
  <<HexLower[(c \div 4096) + 1], HexLower[((c \div 256) % 16) + 1],
    HexLower[((c \div 16) % 16) + 1], HexLower[(c % 16) + 1]>>

\* 0..15 for a hex digit of either case, -1 otherwise.
HexVal(c) ==
  IF c >= 48 /\ c <= 57 THEN c - 48
  ELSE IF c >= 65 /\ c <= 70 THEN c - 55
  ELSE IF c >= 97 /\ c <= 102 THEN c - 87
  ELSE -1

(***************************************************************************)
(* encodeURIComponent / decodeURIComponent (ECMA-262 19.2.6)               *)
(***************************************************************************)

IsAlnum(c) ==
  \/ c >= 48 /\ c <= 57
  \/ c >= 65 /\ c <= 90
  \/ c >= 97 /\ c <= 122

UriMark == S("-_.!~*'()")

\* The code units encodeURIComponent leaves as they are.
IsUriUnreserved(c) == IsAlnum(c) \/ \E i \in 1..Len(UriMark) : UriMark[i] = c

\* The UTF-8 bytes of a code point.
UTF8(cp) ==
  IF cp < 128 THEN <<cp>>
  ELSE IF cp < 2048 THEN <<192 + (cp \div 64), 128 + (cp % 64)>>
  ELSE IF cp < 65536
    THEN <<224 + (cp \div 4096), 128 + ((cp \div 64) % 64), 128 + (cp % 64)>>
  ELSE <<240 + (cp \div 262144), 128 + ((cp \div 4096) % 64),
         128 + ((cp \div 64) % 64), 128 + (cp % 64)>>

\* "%XX" for each byte.
PercentBytes(bytes) == Concat([i \in 1..Len(bytes) |-> <<37>> \o Hex2(bytes[i])])

\* The code point of a surrogate pair.
PairCodePoint(hi, lo) == ((hi - 55296) * 1024) + (lo - 56320) + 65536

RECURSIVE EncodeFrom(_, _)
EncodeFrom(s, i) ==
  IF i > Len(s) THEN <<>>
  ELSE IF IsUriUnreserved(s[i]) THEN <<s[i]>> \o EncodeFrom(s, i + 1)
  ELSE IF IsHighSurrogate(s[i]) /\ i < Len(s) /\ IsLowSurrogate(s[i + 1])
    THEN PercentBytes(UTF8(PairCodePoint(s[i], s[i + 1]))) \o EncodeFrom(s, i + 2)
  ELSE PercentBytes(UTF8(s[i])) \o EncodeFrom(s, i + 1)

\* A lone surrogate makes encodeURIComponent throw a URIError.
encodeURIComponent(s) ==
  IF \E i \in 1..Len(s) : IsLoneSurrogateAt(s, i)
  THEN Throw("URIError")
  ELSE Ok(EncodeFrom(s, 1))

\* The byte written "%XX" at position i of s, or -1 when there is none.
PercentByteAt(s, i) ==
  IF /\ i + 2 <= Len(s)
     /\ s[i] = 37
     /\ HexVal(s[i + 1]) >= 0
     /\ HexVal(s[i + 2]) >= 0
  THEN (HexVal(s[i + 1]) * 16) + HexVal(s[i + 2])
  ELSE -1

\* Number of bytes of the UTF-8 sequence a lead byte announces; 0: not a lead byte.
Utf8Length(b) ==
  IF b < 128 THEN 1
  ELSE IF b >= 192 /\ b <= 223 THEN 2
  ELSE IF b >= 224 /\ b <= 239 THEN 3
  ELSE IF b >= 240 /\ b <= 247 THEN 4
  ELSE 0

IsContinuation(b) == b >= 128 /\ b <= 191

\* The code point of the n-byte sequence starting at "%XX" position i, or -1
\* when the sequence is malformed, overlong, a surrogate or above 0x10FFFF.
Utf8CodePointAt(s, i, n) ==
  LET b(k) == PercentByteAt(s, i + (3 * k))
      lead == b(0)
      cp == IF n = 2 THEN ((lead - 192) * 64) + (b(1) - 128)
            ELSE IF n = 3
              THEN ((lead - 224) * 4096) + ((b(1) - 128) * 64) + (b(2) - 128)
            ELSE ((lead - 240) * 262144) + ((b(1) - 128) * 4096)
                   + ((b(2) - 128) * 64) + (b(3) - 128)
      least == IF n = 2 THEN 128 ELSE IF n = 3 THEN 2048 ELSE 65536
  IN IF /\ \A k \in 1..(n - 1) : IsContinuation(b(k))
        /\ cp >= least
        /\ cp <= 1114111
        /\ ~(cp >= 55296 /\ cp <= 57343)
     THEN cp
     ELSE -1

\* The code units of a code point.
CodeUnits(cp) ==
  IF cp < 65536 THEN <<cp>>
  ELSE <<55296 + ((cp - 65536) \div 1024), 56320 + ((cp - 65536) % 1024)>>

RECURSIVE DecodeFrom(_, _)
DecodeFrom(s, i) ==
  IF i > Len(s) THEN Ok(<<>>)
  ELSE IF s[i] # 37
    THEN LET rest == DecodeFrom(s, i + 1)
         IN IF rest.threw THEN rest ELSE Ok(<<s[i]>> \o rest.value)
  ELSE LET lead == PercentByteAt(s, i)
           n == IF lead < 0 THEN 0 ELSE Utf8Length(lead)
           cp == IF n = 0 THEN -1
                 ELSE IF n = 1 THEN lead
                 ELSE Utf8CodePointAt(s, i, n)
       IN IF cp < 0 THEN Throw("URIError")
          ELSE LET rest == DecodeFrom(s, i + (3 * n))
               IN IF rest.threw THEN rest ELSE Ok(CodeUnits(cp) \o rest.value)

\* A malformed escape makes decodeURIComponent throw a URIError.
decodeURIComponent(s) == DecodeFrom(s, 1)

(***************************************************************************)
(* btoa (HTML, forgiving-base64)                                           *)
(***************************************************************************)

Base64Alphabet ==
  S("ABCDEFGHIJKLMNOPQRSTUVWXYZabcdefghijklmnopqrstuvwxyz0123456789+/")

B64(n) == Base64Alphabet[n + 1]

RECURSIVE Base64Encode(_)
Base64Encode(bytes) ==
  IF Len(bytes) = 0 THEN <<>>
  ELSE IF Len(bytes) = 1
    THEN <<B64(bytes[1] \div 4), B64((bytes[1] % 4) * 16), 61, 61>>
  ELSE IF Len(bytes) = 2
    THEN <<B64(bytes[1] \div 4),
           B64(((bytes[1] % 4) * 16) + (bytes[2] \div 16)),
           B64((bytes[2] % 16) * 4), 61>>
  ELSE <<B64(bytes[1] \div 4),
         B64(((bytes[1] % 4) * 16) + (bytes[2] \div 16)),
         B64(((bytes[2] % 16) * 4) + (bytes[3] \div 64)),
         B64(bytes[3] % 64)>> \o Base64Encode(SubSeq(bytes, 4, Len(bytes)))

\* A code unit above 0xFF makes btoa throw an InvalidCharacterError.
btoa(s) ==
  IF \E i \in 1..Len(s) : s[i] > 255
  THEN Throw("InvalidCharacterError")
  ELSE Ok(Base64Encode(s))

(***************************************************************************)
(* JavaScript values, JSON.stringify and JSON.parse (ECMA-262 25.5)        *)
(*                                                                         *)
(* A value is a record with a type tag.  An object keeps its properties in *)
(* insertion order, as a sequence of [key, val] records.                   *)
(***************************************************************************)

Undefined == [type |-> "undefined"]

Null == [type |-> "null"]

JStr(s) == [type |-> "string", str |-> s]

JObj(props) == [type |-> "object", props |-> props]

JArr(items) == [type |-> "array", items |-> items]

Prop(k, v) == [key |-> k, val |-> v]

\* obj.key for an own property; undefined when there is none.
HasOwn(obj, k) ==
  obj.type = "object" /\ \E i \in 1..Len(obj.props) : obj.props[i].key = k

Get(obj, k) ==
  IF HasOwn(obj, k)
  THEN obj.props[CHOOSE i \in 1..Len(obj.props) : obj.props[i].key = k].val
  ELSE Undefined

\* The escape JSON.stringify writes for one code unit of a string (QuoteJSONString).
JSONEscapeAt(s, i) ==
  LET c == s[i]
  IN IF c = 34 THEN S("\\\"")
     ELSE IF c = 92 THEN S("\\\\")
     ELSE IF c = 8 THEN S("\\b")
     ELSE IF c = 12 THEN S("\\f")
     ELSE IF c = 10 THEN S("\\n")
     ELSE IF c = 13 THEN S("\\r")
     ELSE IF c = 9 THEN S("\\t")
     ELSE IF c < 32 \/ IsLoneSurrogateAt(s, i) THEN S("\\u") \o Hex4(c)
     ELSE <<c>>

JSONQuote(s) ==
  <<34>> \o Concat([i \in 1..Len(s) |-> JSONEscapeAt(s, i)]) \o <<34>>

RECURSIVE JSONStringify(_)
\* JSON.stringify(value) without indentation, for strings and objects.
JSONStringify(v) ==
  IF v.type = "string" THEN JSONQuote(v.str)
  ELSE LET member(i) ==
             (IF i > 1 THEN <<44>> ELSE <<>>)
               \o JSONQuote(v.props[i].key) \o <<58>> \o JSONStringify(v.props[i].val)
       IN <<123>> \o Concat([i \in 1..Len(v.props) |-> member(i)]) \o <<125>>

Spaces(n) == [i \in 1..n |-> 32]

RECURSIVE JSONStringifyIndent(_, _)
\* JSON.stringify(value, null, 2): the text of value at nesting depth.
JSONStringifyIndent(v, depth) ==
  IF v.type = "string" THEN JSONQuote(v.str)
  ELSE IF Len(v.props) = 0 THEN S("{}")
  ELSE LET member(i) ==
             (IF i > 1 THEN <<44>> ELSE <<>>)
               \o <<10>> \o Spaces(2 * (depth + 1))
               \o JSONQuote(v.props[i].key) \o S(": ")
               \o JSONStringifyIndent(v.props[i].val, depth + 1)
       IN <<123>> \o Concat([i \in 1..Len(v.props) |-> member(i)])
            \o <<10>> \o Spaces(2 * depth) \o <<125>>

(***************************************************************************)
(* index.js: generateMCPConfig, the catalog builder                        *)
(*                                                                         *)
(* A descriptor is a record; an optional property the object literal does  *)
(* not set (deepLink, remoteCommand, configJson) is not in its DOMAIN.     *)
(***************************************************************************)

RECURSIVE ReplaceFrom(_, _, _, _)
ReplaceFrom(s, pat, rep, i) ==
  IF i > Len(s) THEN <<>>
  ELSE IF StartsWithAt(s, pat, i) THEN rep \o ReplaceFrom(s, pat, rep, i + Len(pat))
  ELSE <<s[i]>> \o ReplaceFrom(s, pat, rep, i + 1)

\* String.prototype.replaceAll(pat, rep) for a non-empty string pattern.
replaceAll(s, pat, rep) == ReplaceFrom(s, pat, rep, 1)

FaviconUrl(domain) ==
  S("https://www.google.com/s2/favicons?domain=") \o S(domain) \o S("&sz=64")

CursorDeepLinkPrefix == S("https://cursor.com/en/install-mcp?name=")

VSCodeDeepLinkPrefix == S("https://insiders.vscode.dev/redirect/mcp/install?name=")

DeepLinkConfigParam == S("&config=")

\* A Cursor entry that numbers itself from a counter shared between calls:
\* the number of descriptors built by the call made before.
CursorConfigNumbered(mcpUrl, serverName, encodedName, encodedConfig) ==
  [client |-> S("Cursor"),
   iconUrl |-> FaviconUrl("cursor.com"),
   deepLink |-> CursorDeepLinkPrefix \o encodedName \o DeepLinkConfigParam \o encodedConfig,
   instructions |-> S("Add to ~/.cursor/mcp.json"),
   serial |-> Len(earlier.result.value),
   configJson |->
     JObj(<<Prop(S("mcpServers"),
                 JObj(<<Prop(serverName,
                             JObj(<<Prop(S("url"), JStr(mcpUrl))>>))>>))>>)]

CursorConfig(mcpUrl, serverName, encodedName, encodedConfig) ==
  [client |-> S("Cursor"),
   iconUrl |-> FaviconUrl("cursor.com"),
   deepLink |-> CursorDeepLinkPrefix \o encodedName \o DeepLinkConfigParam \o encodedConfig,
   instructions |->
     S("Add to ") \o <<96>> \o S("~/.cursor/mcp.json") \o <<96>> \o S(" or ")
       \o <<96>> \o S(".cursor/mcp.json") \o <<96>> \o S(" (project-specific)"),
   configJson |->
     JObj(<<Prop(S("mcpServers"),
                 JObj(<<Prop(serverName,
                             JObj(<<Prop(S("url"), JStr(mcpUrl))>>))>>))>>)]

VSCodeConfig(mcpUrl, serverName, encodedName, encodedConfig) ==
  [client |-> S("VS Code"),
   iconUrl |-> FaviconUrl("code.visualstudio.com"),
   deepLink |-> VSCodeDeepLinkPrefix \o encodedName \o DeepLinkConfigParam \o encodedConfig,
   instructions |-> S("Add to VS Code settings.json"),
   configJson |->
     JObj(<<Prop(S("mcp"),
                 JObj(<<Prop(S("servers"),
                             JObj(<<Prop(serverName,
                                         JObj(<<Prop(S("type"), JStr(S("http"))),
                                                Prop(S("url"), JStr(mcpUrl))>>))>>))>>))>>)]

ClaudeDesktopConfig(mcpUrl, serverName) ==
  [client |-> S("Claude Desktop / Claude.ai"),
   iconUrl |-> FaviconUrl("claude.ai"),
   instructions |->
     S("Go to Settings ")
       \o <<8594>>
       \o S(" Connectors ")
       \o <<8594>>
       \o S(" Add Custom Connector and fill in:")
       \o <<10>>
       \o S("- **Name**: ")
       \o serverName
       \o <<10>>
       \o S("- **URL**: ")
       \o mcpUrl
       \o <<10, 10>>
       \o S("Please note that if you are part of an organisation, you m")
       \o S("ay not have access to custom connectors at this point. Ask")
       \o S(" your org administrator.")]

\* A Claude Code entry that carries a deep link next to its command.
ClaudeCodeWithDeepLink(mcpUrl, serverName) ==
  [client |-> S("Claude Code"),
   iconUrl |-> FaviconUrl("claude.ai"),
   deepLink |-> S("claude://mcp/add?url=") \o mcpUrl,
   remoteCommand |-> S("claude mcp add --transport http ") \o mcpUrl,
   instructions |-> S("Run the command in your terminal")]

ClaudeCodeConfig(mcpUrl, serverName) ==
  [client |-> S("Claude Code"),
   iconUrl |-> FaviconUrl("claude.ai"),
   remoteCommand |->
     S("claude mcp add --transport http \"")
       \o replaceAll(replaceAll(serverName, S(" "), S("-")), S("."), S("_"))
       \o S("\" ")
       \o mcpUrl,
   instructions |-> S("Run the command in your terminal")]

WindsurfConfig(mcpUrl, serverName) ==
  [client |-> S("Windsurf"),
   iconUrl |-> FaviconUrl("codeium.com"),
   instructions |-> S("Add to your Windsurf MCP configuration"),
   configJson |->
     JObj(<<Prop(S("mcpServers"),
                 JObj(<<Prop(serverName,
                             JObj(<<Prop(S("serverUrl"), JStr(mcpUrl))>>))>>))>>)]

ClineConfig(mcpUrl, serverName) ==
  [client |-> S("Cline"),
   iconUrl |-> FaviconUrl("github.com"),
   instructions |->
     S("Go to MCP Servers section ") \o <<8594>> \o S(" Remote Servers ")
       \o <<8594>> \o S(" Edit Configuration"),
   configJson |->
     JObj(<<Prop(S("mcpServers"),
                 JObj(<<Prop(serverName,
                             JObj(<<Prop(S("url"), JStr(mcpUrl)),
                                    Prop(S("type"), JStr(S("streamableHttp")))>>))>>))>>)]

GeminiConfig(mcpUrl, serverName) ==
  [client |-> S("Gemini CLI"),
   iconUrl |-> FaviconUrl("gemini.google.com"),
   instructions |->
     S("Add to ") \o <<96>> \o S("~/.gemini/settings.json") \o <<96>>,
   configJson |->
     JObj(<<Prop(S("mcpServers"),
                 JObj(<<Prop(serverName,
                             JObj(<<Prop(S("httpUrl"), JStr(mcpUrl))>>))>>))>>)]

ChatGPTConfig(mcpUrl, serverName) ==
  [client |-> S("ChatGPT"),
   iconUrl |-> FaviconUrl("chatgpt.com"),
   instructions |->
     S("First, go to 'Settings -> Connectors -> Advanced Settings'")
       \o S(" and turn on 'Developer Mode'.")
       \o <<10, 10>>
       \o S("Then, in connector settings click 'create'.")
       \o <<10>>
       \o S("      ")
       \o <<10>>
       \o S("Fill in:")
       \o <<10, 10>>
       \o S("- **Name**: ")
       \o serverName
       \o <<10>>
       \o S("- **URL**: ")
       \o mcpUrl
       \o <<10>>
       \o S("- **Authentication**: OAuth")
       \o <<10, 10>>
       \o S("In a new chat ensure developer mode is turned on with the ")
       \o S("connector(s) selected.")
       \o <<10, 10>>
       \o S("Please note that <a href=\"https://platform.openai.com/docs")
       \o S("/guides/developer-mode\" target=\"_blank\">Developer Mode</a>")
       \o S(" must be enabled and this feature may not be available for")
       \o S(" everyone.")]

\* The array literal is evaluated in source order, so the first call that
\* throws ends generateMCPConfig: encodeURIComponent(serverName) at line 22,
\* then btoa(...) at line 24.  The VS Code link encodes the same name and a
\* JSON text, in which JSON.stringify has escaped every lone surrogate.
generateMCPConfig(mcpUrl, serverName) ==
  LET encodedName == encodeURIComponent(serverName)
      cursorBlob == btoa(JSONStringify(JObj(<<Prop(S("url"), JStr(mcpUrl))>>)))
      vscodeBlob ==
        encodeURIComponent(
          JSONStringify(JObj(<<Prop(S("type"), JStr(S("http"))),
                               Prop(S("url"), JStr(mcpUrl))>>)))
  IN IF encodedName.threw THEN Throw(encodedName.error)
     ELSE IF cursorBlob.threw THEN Throw(cursorBlob.error)
     ELSE IF vscodeBlob.threw THEN Throw(vscodeBlob.error)
     ELSE Ok(<<CursorConfig(mcpUrl, serverName, encodedName.value, cursorBlob.value),
               VSCodeConfig(mcpUrl, serverName, encodedName.value, vscodeBlob.value),
               ClaudeDesktopConfig(mcpUrl, serverName),
               ClaudeCodeConfig(mcpUrl, serverName),
               WindsurfConfig(mcpUrl, serverName),
               ClineConfig(mcpUrl, serverName),
               GeminiConfig(mcpUrl, serverName),
               ChatGPTConfig(mcpUrl, serverName)>>)

(***************************************************************************)
(* index.js: generateMCPInstallationGuide, the markdown guide              *)
(***************************************************************************)

\* Lines 141-143: the title, server-name and server-URL lines.
GuideHeader(mcpUrl, serverName) ==
  S("# MCP Server Installation Guide") \o <<10, 10>>
    \o S("**Server Name**: ") \o <<96>> \o serverName \o <<96>> \o S("  ") \o <<10>>
    \o S("**Server URL**: ") \o <<96>> \o mcpUrl \o <<96, 10, 10>>

\* A property of a descriptor that is set and truthy.
HasTruthy(config, field) ==
  field \in DOMAIN config /\ (field = "configJson" \/ Len(config[field]) > 0)

CodeFence == <<96, 96, 96>>

\* A section that puts the deep link after the instructions.
GuideSectionLinkLast(config) ==
  S("## ") \o config.client \o <<10, 10>>
    \o S("**Instructions:** ") \o config.instructions \o <<10, 10>>
    \o (IF HasTruthy(config, "deepLink")
        THEN S("[") \o <<55357, 56599>> \o S(" Install via deep link](")
               \o config.deepLink \o S(")") \o <<10, 10>>
        ELSE <<>>)

\* Lines 146-164: the heading of a client and what the guide shows of it.
\* The link text starts with U+1F517.
GuideSectionBody(config) ==
  S("## ") \o config.client \o <<10, 10>>
    \o (IF HasTruthy(config, "deepLink")
        THEN S("[") \o <<55357, 56599>> \o S(" Install via deep link](")
               \o config.deepLink \o S(")") \o <<10, 10>>
        ELSE <<>>)
    \o (IF HasTruthy(config, "remoteCommand")
        THEN S("**Command:**") \o <<10>> \o CodeFence \o S("bash") \o <<10>>
               \o config.remoteCommand \o <<10>> \o CodeFence \o <<10, 10>>
        ELSE <<>>)
    \o S("**Instructions:** ") \o config.instructions \o <<10, 10>>
    \o (IF HasTruthy(config, "configJson")
        THEN S("**Configuration:**") \o <<10>> \o CodeFence \o S("json") \o <<10>>
               \o JSONStringifyIndent(config.configJson, 0)
               \o <<10>> \o CodeFence \o <<10, 10>>
        ELSE <<>>)

\* A section that is followed by a rule even when it is the last.
GuideSectionRuled(config, isLast) ==
  GuideSectionBody(config) \o S("---") \o <<10, 10>>

\* Lines 145-169: a section, and the rule after it unless it is the last.
GuideSection(config, isLast) ==
  GuideSectionBody(config) \o (IF isLast THEN <<>> ELSE S("---") \o <<10, 10>>)

GuideMarkdown(mcpUrl, serverName, configs) ==
  GuideHeader(mcpUrl, serverName)
    \o Concat([i \in 1..Len(configs) |-> GuideSection(configs[i], i = Len(configs))])

\* Line 139: what generateMCPConfig throws ends the guide.
GuideOf(mcpUrl, serverName, configs) ==
  IF configs.threw THEN Throw(configs.error)
  ELSE Ok(GuideMarkdown(mcpUrl, serverName, configs.value))

generateMCPInstallationGuide(mcpUrl, serverName) ==
  GuideOf(mcpUrl, serverName, generateMCPConfig(mcpUrl, serverName))

(***************************************************************************)
(* new URL(input[, base]) (WHATWG URL), for the URLs the model draws:      *)
(* http(s) URLs without credentials, port, backslashes, tabs or newlines.  *)
(* Any other scheme is kept as an opaque, valid URL.                       *)
(***************************************************************************)

IsAlpha(c) == (c >= 65 /\ c <= 90) \/ (c >= 97 /\ c <= 122)

LowerUnit(c) == IF c >= 65 /\ c <= 90 THEN c + 32 ELSE c

AsciiLower(s) == [i \in 1..Len(s) |-> LowerUnit(s[i])]

RECURSIVE Split(_, _)
\* String.prototype.split(sep) for a one-character separator.
Split(s, sep) ==
  IF \E i \in 1..Len(s) : s[i] = sep
  THEN LET i == CHOOSE k \in 1..Len(s) : s[k] = sep /\ \A j \in 1..(k - 1) : s[j] # sep
       IN <<SubSeq(s, 1, i - 1)>> \o Split(SubSeq(s, i + 1, Len(s)), sep)
  ELSE <<s>>

\* Array.prototype.join(sep).
Join(segs, sep) ==
  IF Len(segs) = 0 THEN <<>>
  ELSE segs[1] \o Concat([i \in 1..(Len(segs) - 1) |-> sep \o segs[i + 1]])

\* Position of the first code unit of s at or after from that is in stops;
\* Len(s) + 1 when there is none.
FirstOf(s, stops, from) ==
  IF \E i \in from..Len(s) : s[i] \in stops
  THEN CHOOSE i \in from..Len(s) :
         s[i] \in stops /\ \A j \in from..(i - 1) : s[j] \notin stops
  ELSE Len(s) + 1

\* The code units the URL parser percent-encodes in a path, a query and a
\* fragment, besides everything above "~".
PathEncodeSet == (0..32) \cup {34, 35, 60, 62, 63, 96, 123, 125}

QueryEncodeSet == (0..32) \cup {34, 35, 39, 60, 62}

FragmentEncodeSet == (0..32) \cup {34, 60, 62, 96}

RECURSIVE UrlEncodeFrom(_, _, _)
\* UTF-8 percent-encoding of the code units in set or above "~"; a lone
\* surrogate is encoded as U+FFFD.
UrlEncodeFrom(s, set, i) ==
  IF i > Len(s) THEN <<>>
  ELSE IF s[i] <= 126 /\ s[i] \notin set THEN <<s[i]>> \o UrlEncodeFrom(s, set, i + 1)
  ELSE IF IsHighSurrogate(s[i]) /\ i < Len(s) /\ IsLowSurrogate(s[i + 1])
    THEN PercentBytes(UTF8(PairCodePoint(s[i], s[i + 1])))
           \o UrlEncodeFrom(s, set, i + 2)
  ELSE IF IsLoneSurrogateAt(s, i)
    THEN PercentBytes(UTF8(65533)) \o UrlEncodeFrom(s, set, i + 1)
  ELSE PercentBytes(UTF8(s[i])) \o UrlEncodeFrom(s, set, i + 1)

RECURSIVE RemoveDotSegments(_, _)
\* segs: the path's segments still to read; out: the segments kept so far.
RemoveDotSegments(segs, out) ==
  IF Len(segs) = 0 THEN out
  ELSE LET seg == Head(segs)
           last == Len(segs) = 1
       IN IF seg = S("..")
          THEN RemoveDotSegments(
                 Tail(segs),
                 (IF Len(out) > 0 THEN SubSeq(out, 1, Len(out) - 1) ELSE out)
                   \o (IF last THEN <<(<<>>)>> ELSE <<>>))
          ELSE IF seg = S(".")
            THEN RemoveDotSegments(Tail(segs), out \o (IF last THEN <<(<<>>)>> ELSE <<>>))
          ELSE RemoveDotSegments(Tail(segs), Append(out, seg))

\* The serialized path of the raw path text p ("" or a text starting with "/").
NormalizePath(p) ==
  IF Len(p) = 0 THEN S("/")
  ELSE LET segs == Split(SubSeq(p, 2, Len(p)), 47)
           kept == RemoveDotSegments(segs, <<>>)
       IN S("/") \o Join([i \in 1..Len(kept) |-> UrlEncodeFrom(kept[i], PathEncodeSet, 1)],
                         S("/"))

InvalidURL ==
  [valid |-> FALSE, special |-> FALSE, scheme |-> <<>>, hostname |-> <<>>,
   pathname |-> <<>>, search |-> <<>>, hash |-> <<>>, href |-> <<>>]

\* An http(s) URL; a URL without a host is a failure.
SpecialURL(scheme, hostname, pathname, query, fragment) ==
  IF Len(hostname) = 0 THEN InvalidURL
  ELSE [valid |-> TRUE, special |-> TRUE, scheme |-> scheme, hostname |-> hostname,
        pathname |-> pathname,
        search |-> IF Len(query) <= 1 THEN <<>> ELSE query,
        hash |-> IF Len(fragment) <= 1 THEN <<>> ELSE fragment,
        href |-> scheme \o S("://") \o hostname \o pathname \o query \o fragment]

\* The parser's states, each reading s up to the next delimiter.
QueryState(s, scheme, hostname, pathname, pathEnd, queryEnd) ==
  SpecialURL(scheme, hostname, pathname,
             UrlEncodeFrom(SubSeq(s, pathEnd, queryEnd - 1), QueryEncodeSet, 1),
             UrlEncodeFrom(SubSeq(s, queryEnd, Len(s)), FragmentEncodeSet, 1))

PathState(s, scheme, hostname, hostEnd, pathEnd) ==
  QueryState(s, scheme, hostname, NormalizePath(SubSeq(s, hostEnd, pathEnd - 1)),
             pathEnd, FirstOf(s, {35}, pathEnd))

HostState(s, scheme, hostStart, hostEnd) ==
  PathState(s, scheme, AsciiLower(SubSeq(s, hostStart, hostEnd - 1)), hostEnd,
            FirstOf(s, {63, 35}, hostEnd))

\* Position of the first code unit at or after from that is no slash.
SkipSlashes(s, from) ==
  IF \E i \in from..Len(s) : s[i] # 47
  THEN CHOOSE i \in from..Len(s) : s[i] # 47 /\ \A j \in from..(i - 1) : s[j] = 47
  ELSE Len(s) + 1

AuthorityState(s, scheme, hostStart) ==
  HostState(s, scheme, hostStart, FirstOf(s, {47, 63, 35}, hostStart))

SchemeOk(s, colon) ==
  /\ colon <= Len(s)
  /\ colon > 1
  /\ IsAlpha(s[1])
  /\ \A i \in 2..(colon - 1) : IsAlnum(s[i]) \/ s[i] \in {43, 45, 46}

OpaqueURL(s, scheme, colon) ==
  [valid |-> TRUE, special |-> FALSE, scheme |-> scheme, hostname |-> <<>>,
   pathname |-> SubSeq(s, colon + 1, Len(s)), search |-> <<>>, hash |-> <<>>,
   href |-> scheme \o SubSeq(s, colon, Len(s))]

SchemeState(s, scheme, colon) ==
  IF ~SchemeOk(s, colon) THEN InvalidURL
  ELSE IF scheme \notin {S("http"), S("https")} THEN OpaqueURL(s, scheme, colon)
  ELSE AuthorityState(s, scheme, SkipSlashes(s, colon + 1))

SchemeOf(s, colon) == SchemeState(s, AsciiLower(SubSeq(s, 1, colon - 1)), colon)

\* new URL(s): the parsed URL record; valid = FALSE stands for the TypeError.
ParseURL(s) == SchemeOf(s, FirstOf(s, {58}, 1))

\* The query of the base text, with its "?", without the fragment.
RawQuery(base) == SubSeq(base, FirstOf(base, {63, 35}, 1), FirstOf(base, {35}, 1) - 1)

\* The text a relative input stands for, given the parsed base b.
ResolvedText(input, base, b) ==
  (b.scheme \o S("://") \o b.hostname)
    \o (IF Len(input) = 0 THEN b.pathname \o RawQuery(base)
        ELSE IF input[1] = 47 THEN input
        ELSE IF input[1] = 63 THEN b.pathname \o input
        ELSE IF input[1] = 35 THEN b.pathname \o RawQuery(base) \o input
        ELSE SubSeq(b.pathname, 1, LastIndexOf(b.pathname, 47)) \o input)

RelativeState(input, base, b) ==
  IF ~b.valid \/ ~b.special THEN InvalidURL
  ELSE ParseURL(IF StartsWithAt(input, S("//"), 1)
                THEN b.scheme \o S(":") \o input
                ELSE ResolvedText(input, base, b))

NoSchemeState(input, base, abs) ==
  IF abs.valid THEN abs ELSE RelativeState(input, base, ParseURL(base))

\* new URL(input, base): input is absolute, or is resolved against base.
ResolveURL(input, base) == NoSchemeState(input, base, ParseURL(input))

(***************************************************************************)
(* worker.ts: fetchMCPMetadata, the metadata resolver                      *)
(***************************************************************************)

IsNullish(v) == v.type \in {"undefined", "null"}

\* ToBoolean for the values a JSON document holds.
Truthy(v) ==
  IF v.type \in {"object", "array"} THEN TRUE
  ELSE IF v.type = "string" THEN Len(v.str) > 0
  ELSE FALSE

\* ToString for a string, undefined or null.
ToStr(v) ==
  IF v.type = "string" THEN v.str
  ELSE IF v.type = "undefined" THEN S("undefined")
  ELSE S("null")

\* v?.k: undefined for undefined and null, and for a value without the property.
OptGet(v, k) == IF IsNullish(v) THEN Undefined ELSE Get(v, k)

\* Lines 14-16: the discovery URL that is fetched.
WellKnownUrl(mcpUrl) ==
  LET segments == Split(mcpUrl, 47)
      popped == SubSeq(segments, 1, Len(segments) - 1)
  IN Join(popped, S("/")) \o S("/.well-known/mcp")

\* Lines 40-43: new URL(endpoint, mcpUrl).href for streamable-http, the
\* transport's url for sse.  valid = FALSE stands for the TypeError of new URL.
HrefOf(u) == [valid |-> u.valid, url |-> JStr(u.href)]

TransportUrl(transport, mcpUrl) ==
  IF Get(transport, S("type")) = JStr(S("streamable-http"))
  THEN HrefOf(ResolveURL(ToStr(Get(transport, S("endpoint"))), mcpUrl))
  ELSE [valid |-> TRUE, url |-> Get(transport, S("url"))]

\* mcpUrl.includes(card.transport.endpoint || "")
IncludesEndpoint(mcpUrl, endpoint) ==
  Includes(mcpUrl, IF Truthy(endpoint) THEN ToStr(endpoint) ELSE <<>>)

\* Lines 44-47: the value the callback returns for a URL-based transport.
EndpointMatches(transport, t, mcpUrl) ==
  IF ~t.valid THEN "throw"
  ELSE IF t.url = JStr(mcpUrl) \/ IncludesEndpoint(mcpUrl, Get(transport, S("endpoint")))
    THEN "match"
  ELSE "nomatch"

\* A callback that treats every transport as URL-based, whatever its type.
TransportMatchAnyType(transport, mcpUrl) ==
  IF ~Truthy(transport) THEN "nomatch"
  ELSE EndpointMatches(transport, TransportUrl(transport, mcpUrl), mcpUrl)

\* Lines 33-50, for the transport of a card.
TransportMatch(transport, mcpUrl) ==
  IF ~Truthy(transport) THEN "nomatch"
  ELSE IF Get(transport, S("type")) \in {JStr(S("streamable-http")), JStr(S("sse"))}
    THEN EndpointMatches(transport, TransportUrl(transport, mcpUrl), mcpUrl)
  ELSE "nomatch"

\* Lines 32-51: the callback of data.find: "match", "nomatch" or "throw"
\* (reading the transport of a null entry throws).
CardMatch(card, mcpUrl) ==
  IF IsNullish(card) THEN "throw" ELSE TransportMatch(Get(card, S("transport")), mcpUrl)

RECURSIVE FindFrom(_, _, _)
\* Array.prototype.find from index i: the first entry whose callback does not
\* return false, with what the callback did; index 0: there is none.
FindStep(items, mcpUrl, i, verdict) ==
  IF verdict = "nomatch" THEN FindFrom(items, mcpUrl, i + 1)
  ELSE [index |-> i, verdict |-> verdict]

FindFrom(items, mcpUrl, i) ==
  IF i > Len(items) THEN [index |-> 0, verdict |-> "nomatch"]
  ELSE FindStep(items, mcpUrl, i, CardMatch(items[i], mcpUrl))

\* A selection without the fallback to the first entry: match || null.
MatchOnly(items, found) ==
  IF found.verdict = "throw" THEN Throw("TypeError")
  ELSE IF found.index > 0 THEN Ok(items[found.index])
  ELSE Ok(Null)

\* Line 53: match || data[0] || null.
MatchOrFirst(items, found) ==
  IF found.verdict = "throw" THEN Throw("TypeError")
  ELSE IF found.index > 0 THEN Ok(items[found.index])
  ELSE IF Len(items) > 0 /\ Truthy(items[1]) THEN Ok(items[1])
  ELSE Ok(Null)

\* Lines 31-56: the value returned for the parsed body data.
SelectCard(data, mcpUrl) ==
  IF data.type = "array"
  THEN MatchOrFirst(data.items, FindFrom(data.items, mcpUrl, 1))
  ELSE Ok(data)

\* What the runtime's fetch and response.json() did, as the resolver sees it.
NetworkError == [kind |-> "networkError", data |-> Undefined]

NotOk == [kind |-> "notOk", data |-> Undefined]

BadJson == [kind |-> "badJson", data |-> Undefined]

JsonBody(data) == [kind |-> "json", data |-> data]

\* Lines 19-56, the body of the try block: the value returned, or what is thrown.
ResolveTry(mcpUrl, outcome) ==
  IF outcome.kind = "networkError" THEN Throw("TypeError")
  ELSE IF outcome.kind = "notOk" THEN Ok(Null)
  ELSE IF outcome.kind = "badJson" THEN Throw("SyntaxError")
  ELSE SelectCard(outcome.data, mcpUrl)

\* The resolver without its catch block: what the try block throws goes on to
\* the caller.
ResolveRethrow(attempt) == attempt

\* Lines 57-60: the catch block returns null.
ResolveCatch(attempt) == IF attempt.threw THEN Ok(Null) ELSE attempt

\* fetchMCPMetadata(mcpUrl), given what the fetch of WellKnownUrl(mcpUrl) did.
fetchMCPMetadata(mcpUrl, outcome) == ResolveCatch(ResolveTry(mcpUrl, outcome))

(***************************************************************************)
(* worker.ts: getBestIcon and generateHTML.  A page is the record of the   *)
(* values the template interpolates; the fixed markup is left out.         *)
(***************************************************************************)

\* String.prototype.toLowerCase for ASCII, Latin-1 and the Kelvin sign.
ToLowerUnit(c) ==
  IF c >= 65 /\ c <= 90 THEN c + 32
  ELSE IF c >= 192 /\ c <= 222 /\ c # 215 THEN c + 32
  ELSE IF c = 8490 THEN 107
  ELSE c

toLowerCase(s) == [i \in 1..Len(s) |-> ToLowerUnit(s[i])]

\* Line 67-69: icon.mimeType?.match(/image\/(png|jpeg|jpg)/).
IsPreferredIcon(icon) ==
  LET mimeType == Get(icon, S("mimeType"))
  IN /\ mimeType.type = "string"
     /\ \/ Includes(mimeType.str, S("image/png"))
        \/ Includes(mimeType.str, S("image/jpeg"))
        \/ Includes(mimeType.str, S("image/jpg"))

IsSvgIcon(icon) == Get(icon, S("mimeType")) = JStr(S("image/svg+xml"))

\* An icon choice that ignores the types: the first icon of the list.
getFirstIcon(icons) ==
  IF ~Truthy(icons) \/ Len(icons.items) = 0 THEN Null
  ELSE Get(icons.items[1], S("src"))

\* Lines 63-76.  icons: undefined or an array of icon objects.
getBestIcon(icons) ==
  IF ~Truthy(icons) \/ Len(icons.items) = 0 THEN Null
  ELSE IF \E i \in 1..Len(icons.items) : IsPreferredIcon(icons.items[i])
    THEN Get(icons.items[CHOOSE i \in 1..Len(icons.items) :
                           /\ IsPreferredIcon(icons.items[i])
                           /\ \A j \in 1..(i - 1) : ~IsPreferredIcon(icons.items[j])],
             S("src"))
  ELSE IF \E i \in 1..Len(icons.items) : IsSvgIcon(icons.items[i])
    THEN Get(icons.items[CHOOSE i \in 1..Len(icons.items) :
                           /\ IsSvgIcon(icons.items[i])
                           /\ \A j \in 1..(i - 1) : ~IsSvgIcon(icons.items[j])],
             S("src"))
  ELSE Get(icons.items[1], S("src"))

\* a || b
OrElse(a, b) == IF Truthy(a) THEN a ELSE b

\* Lines 85-90: the last two labels of the hostname.
ApexDomain(hostname) ==
  LET labels == Split(hostname, 46)
      n == Len(labels)
  IN Join(SubSeq(labels, IF n > 2 THEN n - 1 ELSE 1, n), S("."))

\* Lines 116-120.
DisplayConfigs(configs, selectedClient) ==
  IF Truthy(selectedClient)
  THEN SelectSeq(configs,
                 LAMBDA config : toLowerCase(config.client) = toLowerCase(selectedClient.str))
  ELSE configs

\* Lines 605-625: one tab per descriptor; active by strict equality.
ClientTabs(configs, selectedClient) ==
  [i \in 1..Len(configs) |->
     [client |-> configs[i].client,
      iconUrl |-> configs[i].iconUrl,
      active |-> configs[i].client = selectedClient.str]]

\* field.length > 0 for the field types the model draws: a string or an array
\* (undefined > 0 is false for any other value).
HasLength(field) ==
  IF field.type = "string" THEN Len(field.str) > 0
  ELSE field.type = "array" /\ Len(field.items) > 0

\* Lines 105-113: metadata?.X && (metadata.X === "dynamic" || metadata.X.length > 0),
\* read as a condition by the template.
HasCapability(field) ==
  Truthy(field) /\ (field = JStr(S("dynamic")) \/ HasLength(field))

\* Lines 307-349: the badge of one capability, and the count after its label
\* when typeof field === "object".
CapabilityBadge(field) ==
  [shown |-> HasCapability(field),
   counted |-> HasCapability(field) /\ field.type = "array",
   count |-> IF field.type = "array" THEN Len(field.items) ELSE 0]

\* generateHTML(mcpUrl, serverName, configs, selectedClient, metadata), with
\* url = new URL(mcpUrl): the page, or the TypeError of new URL(mcpUrl) (line 85) or of reading a
\* property of an undefined currentConfig (line 598).
RenderHTML(mcpUrl, serverName, configs, selectedClient, metadata, url) ==
  LET serverInfo == OptGet(metadata, S("serverInfo"))
      displayName == OrElse(OptGet(serverInfo, S("title")), JStr(serverName))
      serverIcon ==
        OrElse(getBestIcon(OrElse(OptGet(serverInfo, S("icons")),
                                  OptGet(metadata, S("icons")))),
               JStr(S("https://www.google.com/s2/favicons?domain=")
                      \o ApexDomain(url.hostname) \o S("&sz=128")))
      displayConfigs == DisplayConfigs(configs, selectedClient)
      header ==
        [displayName |-> displayName,
         version |-> OptGet(serverInfo, S("version")),
         websiteUrl |-> OptGet(serverInfo, S("websiteUrl")),
         description |-> OrElse(OptGet(metadata, S("description")),
                                OptGet(metadata, S("instructions"))),
         serverIcon |-> serverIcon,
         protocolVersion |-> OptGet(metadata, S("protocolVersion")),
         documentationUrl |-> OptGet(metadata, S("documentationUrl")),
         transportType |-> OptGet(OptGet(metadata, S("transport")), S("type")),
         resources |-> CapabilityBadge(OptGet(metadata, S("resources"))),
         tools |-> CapabilityBadge(OptGet(metadata, S("tools"))),
         prompts |-> CapabilityBadge(OptGet(metadata, S("prompts")))]
  IN IF ~url.valid THEN Throw("TypeError")
     ELSE IF ~Truthy(selectedClient)
       THEN Ok([view |-> "list", mcpUrl |-> mcpUrl, serverName |-> serverName,
                header |-> header, selectedClient |-> selectedClient,
                configs |-> configs, tabs |-> <<>>])
     ELSE IF Len(displayConfigs) = 0 THEN Throw("TypeError")
     ELSE Ok([view |-> "client", mcpUrl |-> mcpUrl, serverName |-> serverName,
              header |-> header, selectedClient |-> selectedClient,
              configs |-> <<displayConfigs[1]>>,
              tabs |-> ClientTabs(configs, selectedClient)])

generateHTML(mcpUrl, serverName, configs, selectedClient, metadata) ==
  RenderHTML(mcpUrl, serverName, configs, selectedClient, metadata, ParseURL(mcpUrl))

\* generateGuidesPage(mcpUrl, serverName, configs), lines 762-1033: the values
\* it interpolates, or the URIError of encodeURIComponent.
generateGuidesPage(mcpUrl, serverName, configs) ==
  LET name == encodeURIComponent(serverName)
      target == encodeURIComponent(mcpUrl)
  IN IF name.threw THEN Throw(name.error)
     ELSE IF target.threw THEN Throw(target.error)
     ELSE Ok([view |-> "guides", mcpUrl |-> mcpUrl, serverName |-> serverName,
              baseUrl |-> S("https://installthismcp.com/") \o name.value
                            \o S("?url=") \o target.value,
              configs |-> configs])

(***************************************************************************)
(* worker.ts: the fetch handler                                            *)
(***************************************************************************)

\* Line 1133: url.pathname.split("/").filter(Boolean).
PathParts(pathname) == SelectSeq(Split(pathname, 47), LAMBDA seg : Len(seg) > 0)

HtmlResponse(page) ==
  [status |-> 200, contentType |-> "text/html; charset=utf-8", body |-> page]

\* Lines 1154-1160 and 1188-1194: the message is the prefix and error.message.
ErrorResponse(prefix, error) ==
  [status |-> 500, contentType |-> "text/plain",
   body |-> [view |-> "error", prefix |-> prefix, message |-> error]]

\* The handler's promise rejects: no Response is produced.
Uncaught(error) ==
  [status |-> 0, contentType |-> "", body |-> [view |-> "uncaught", message |-> error]]

FaviconResponse ==
  [status |-> 200, contentType |-> "image/svg+xml", body |-> [view |-> "favicon"]]

\* An answer that knows no page for the request.
NotFoundResponse ==
  [status |-> 404, contentType |-> "text/plain", body |-> [view |-> "error"]]

LandingResponse == HtmlResponse([view |-> "landing"])

\* A routing that looks at the url parameter before the favicon path.
RouteFaviconLast(req) ==
  IF Len(PathParts(req.pathname)) > 0 /\ Truthy(req.url) THEN "guide"
  ELSE IF req.pathname = S("/favicon.svg") THEN "favicon"
  ELSE "landing"

\* Lines 1120 and 1136: what the handler does before it awaits anything.
Route(req) ==
  IF req.pathname = S("/favicon.svg") THEN "favicon"
  ELSE IF Len(PathParts(req.pathname)) > 0 /\ Truthy(req.url) THEN "guide"
  ELSE "landing"

\* Lines 1138-1139.  The path segment is decoded only when the card has no
\* title; decodeURIComponent is outside every try block.
ServerName(req, metadata) ==
  LET title == OptGet(OptGet(metadata, S("serverInfo")), S("title"))
  IN IF Truthy(title) THEN Ok(ToStr(title))
     ELSE decodeURIComponent(PathParts(req.pathname)[1])

\* The try blocks of lines 1143-1161 and 1171-1195: the page, or the 500
\* answer for whatever generateMCPConfig or the page generator threw.
Rendered(prefix, html) ==
  IF html.threw THEN ErrorResponse(prefix, html.error) ELSE HtmlResponse(html.value)

\* Lines 1142-1162: /{name}/guides.
GuidesFrom(mcpUrl, serverName, configs) ==
  IF configs.threw THEN ErrorResponse("Error generating guides: ", configs.error)
  ELSE Rendered("Error generating guides: ",
                generateGuidesPage(mcpUrl, serverName, configs.value))

GuidesResponse(mcpUrl, serverName) ==
  GuidesFrom(mcpUrl, serverName, generateMCPConfig(mcpUrl, serverName))

\* Lines 1171-1195.
GuideFrom(mcpUrl, serverName, selectedClient, metadata, configs) ==
  IF configs.threw THEN ErrorResponse("Error generating guide: ", configs.error)
  ELSE Rendered("Error generating guide: ",
                generateHTML(mcpUrl, serverName, configs.value, selectedClient, metadata))

GuideResponse(mcpUrl, serverName, selectedClient, metadata) ==
  GuideFrom(mcpUrl, serverName, selectedClient, metadata,
            generateMCPConfig(mcpUrl, serverName))

\* Lines 1138-1195: the handler after fetchMCPMetadata has returned metadata.
Handle(req, metadata) ==
  LET pathParts == PathParts(req.pathname)
      mcpUrl == req.url.str
      serverName == ServerName(req, metadata)
      client == IF Len(pathParts) = 3 /\ pathParts[2] = S("for")
                THEN decodeURIComponent(pathParts[3])
                ELSE Ok(<<>>)
      selectedClient == IF Len(pathParts) = 3 /\ pathParts[2] = S("for")
                        THEN JStr(client.value)
                        ELSE Null
  IN IF serverName.threw THEN Uncaught(serverName.error)
     ELSE IF Len(pathParts) = 2 /\ pathParts[2] = S("guides")
       THEN GuidesResponse(mcpUrl, serverName.value)
     ELSE IF client.threw THEN Uncaught(client.error)
     ELSE GuideResponse(mcpUrl, serverName.value, selectedClient, metadata)

(***************************************************************************)
(* The inputs the model draws                                              *)
(***************************************************************************)

\* Longest server name passed to the library functions.
MaxNameLen == 2

\* Longest list of server cards in a discovery response.
MaxCards == 2

\* a, space, dot, double quote, e-acute (Latin-1), the euro sign (above
\* Latin-1) and the two halves of the surrogate pair of U+1F600.
NameAlphabet == {97, 32, 46, 34, 233, 8364, 55357, 56832}

Strings(alphabet, n) == UNION {[1..k -> alphabet] : k \in 0..n}

LibraryNames == Strings(NameAlphabet, MaxNameLen) \cup {S("My Server.v2")}

EndpointUrl == S("https://h/a/mcp")

LibraryUrls ==
  {EndpointUrl, <<>>, S("not a url"), S("a\"b\\c"),
   S("https://h/") \o <<233>>,
   S("https://h/") \o <<8364>>,
   S("https://h/") \o <<55357, 56832>>,
   S("https://h/") \o <<55357>>}

RequestPaths ==
  {S("/"), S("/favicon.svg"), S("/X"), S("/My%20Server.v2"), S("/X/guides"),
   S("/X/for/Cursor"), S("/X/for/cursor"), S("/X/for/Nope"), S("/%E0%A4%A"),
   S("/X/for/%E0%A4%A")}

\* The url query parameter: absent, empty, or a string without lone surrogates.
RequestUrls ==
  {Null, JStr(<<>>), JStr(EndpointUrl), JStr(S("https://h")), JStr(S("https://h/")),
   JStr(S("https://h/a/b?x=c/d")),
   JStr(S("https://o/sse")), JStr(S("nourl")), JStr(S("https://h/") \o <<8364>>)}

Requests == [pathname : RequestPaths, url : RequestUrls]

ServerInfo(name, title, version) ==
  JObj((IF Len(name) > 0 THEN <<Prop(S("name"), JStr(S(name)))>> ELSE <<>>)
         \o (IF Len(title) > 0 THEN <<Prop(S("title"), JStr(S(title)))>> ELSE <<>>)
         \o (IF Len(version) > 0 THEN <<Prop(S("version"), JStr(S(version)))>> ELSE <<>>))

Icon(src, mimeType) ==
  JObj(<<Prop(S("src"), JStr(S(src))), Prop(S("mimeType"), JStr(S(mimeType)))>>)

\* A card whose streamable-http endpoint resolves to EndpointUrl.
CardHttp ==
  JObj(<<Prop(S("protocolVersion"), JStr(S("2025-06-18"))),
         Prop(S("serverInfo"), ServerInfo("srv.http", "Card Title", "1.0")),
         Prop(S("description"), JStr(S("streamable card"))),
         Prop(S("icons"), JArr(<<Icon("https://h/i.svg", "image/svg+xml"),
                                 Icon("https://h/i.png", "image/png")>>)),
         Prop(S("transport"),
              JObj(<<Prop(S("type"), JStr(S("streamable-http"))),
                     Prop(S("endpoint"), JStr(S("/a/mcp")))>>))>>)

\* An sse card of another server.
CardSse ==
  JObj(<<Prop(S("protocolVersion"), JStr(S("2025-06-18"))),
         Prop(S("serverInfo"), ServerInfo("srv.sse", "", "2.0")),
         Prop(S("transport"),
              JObj(<<Prop(S("type"), JStr(S("sse"))),
                     Prop(S("url"), JStr(S("https://o/sse")))>>))>>)

CardStdio ==
  JObj(<<Prop(S("protocolVersion"), JStr(S("2025-06-18"))),
         Prop(S("serverInfo"), ServerInfo("srv.stdio", "Local", "3.0")),
         Prop(S("transport"), JObj(<<Prop(S("type"), JStr(S("stdio")))>>))>>)

\* An object that is no server card: no name, version, protocolVersion, transport.
CardBare ==
  JObj(<<Prop(S("serverInfo"), ServerInfo("", "Bare", "")),
         Prop(S("description"), JStr(S("bare")))>>)

\* Names passed to generateMCPInstallationGuide: plain ones, one with a lone
\* surrogate, and names that hold a line feed followed by markdown.
GuideNames ==
  {<<>>, S("X"), S("My Server.v2"), <<55357>>,
   <<10>> \o S("---"), <<10>> \o S("## Cursor"), S("a") \o <<10>> \o S("b")}

GuideUrls == LibraryUrls \cup {EndpointUrl \o <<10>> \o S("---")}

\* Longest icon list passed to getBestIcon.
MaxIcons == 3

\* Icons of the types getBestIcon tells apart, and one without a mimeType.
IconPool ==
  {Icon("https://h/i.png", "image/png"),
   Icon("https://h/i.jpg", "image/jpeg"),
   Icon("https://h/i.svg", "image/svg+xml"),
   Icon("https://h/i.webp", "image/webp"),
   JObj(<<Prop(S("src"), JStr(S("https://h/i.bin")))>>)}

\* The icons argument: missing, or a list of icons.
IconLists ==
  {Undefined} \cup {JArr(items) : items \in UNION {[1..k -> IconPool] : k \in 0..MaxIcons}}

\* What a card can hold as resources, tools or prompts: nothing, an empty
\* list, a list of two, the marker "dynamic", or another string.
CapabilityValues ==
  {Undefined, JArr(<<>>), JArr(<<JObj(<<>>), JObj(<<>>)>>), JStr(S("dynamic")), JStr(S("none"))}

OptionalProp(k, v) == IF v = Undefined THEN <<>> ELSE <<Prop(S(k), v)>>

CapabilityCard(resources, tools, prompts) ==
  JObj(<<Prop(S("protocolVersion"), JStr(S("2025-06-18"))),
         Prop(S("serverInfo"), ServerInfo("srv.cap", "", "1.0")),
         Prop(S("transport"),
              JObj(<<Prop(S("type"), JStr(S("streamable-http"))),
                     Prop(S("endpoint"), JStr(S("/a/mcp")))>>))>>
         \o OptionalProp("resources", resources)
         \o OptionalProp("tools", tools)
         \o OptionalProp("prompts", prompts))

\* Cards that declare at most two of the three capabilities.
CapabilityCards ==
  {CapabilityCard(c[1], c[2], c[3]) :
     c \in {d \in [1..3 -> CapabilityValues] : \E i \in 1..3 : d[i] = Undefined}}

\* Cards with icons in serverInfo.icons, in the top-level icons, in both or in
\* neither; either list can be empty.
IconCard(infoIcons, icons) ==
  JObj(<<Prop(S("protocolVersion"), JStr(S("2025-06-18"))),
         Prop(S("serverInfo"),
              JObj(<<Prop(S("name"), JStr(S("srv.icon"))),
                     Prop(S("version"), JStr(S("1.0")))>>
                     \o OptionalProp("icons", infoIcons))),
         Prop(S("transport"),
              JObj(<<Prop(S("type"), JStr(S("streamable-http"))),
                     Prop(S("endpoint"), JStr(S("/a/mcp")))>>))>>
         \o OptionalProp("icons", icons))

IconCards ==
  {IconCard(infoIcons, icons) :
     infoIcons \in {Undefined, JArr(<<>>),
                    JArr(<<Icon("https://h/info.svg", "image/svg+xml")>>)},
     icons \in {Undefined, JArr(<<>>),
                JArr(<<Icon("https://h/i.webp", "image/webp"),
                       Icon("https://h/i.png", "image/png")>>)}}

CardPool == {CardHttp, CardSse, CardStdio, CardBare, Null}

\* The JSON values a discovery response can hold: one value, or a list.
Documents ==
  CardPool \cup CapabilityCards \cup IconCards \cup {JStr(S("text"))}
    \cup {JArr(items) : items \in UNION {[1..k -> CardPool] : k \in 0..MaxCards}}

(***************************************************************************)
(* The state machine                                                       *)
(***************************************************************************)

VARIABLES
  pc,            \* "idle", "awaitFetch", "awaitJson", "resolved", "responded",
                 \* "called", "calledIcon", "calledGuide"
  request,       \* the request being handled
  wellKnownUrl,  \* the URL passed to fetch
  fetches,       \* number of fetch calls made for the request
  discovery,     \* what fetch and response.json() produced
  metadata,      \* the completion of fetchMCPMetadata
  response,      \* the completion of the handler
  call,          \* the library call and its completion
  other          \* a second request in flight at the same time: its handler's locals

vars ==
  <<pc, request, wellKnownUrl, fetches, discovery, metadata, response, call, earlier, other>>

NoRequest == [pathname |-> <<>>, url |-> Null]

NoOutcome == [kind |-> "none", data |-> Undefined]

NoResponse == [status |-> 0, contentType |-> "", body |-> [view |-> "none"]]

NoCall == [mcpUrl |-> <<>>, serverName |-> <<>>, result |-> Ok(<<>>)]

\* No second request is in flight.
NoOther ==
  [pc |-> "idle", request |-> NoRequest, discovery |-> NoOutcome,
   metadata |-> Ok(Undefined), response |-> NoResponse]

Init ==
  /\ pc = "idle"
  /\ request = NoRequest
  /\ wellKnownUrl = <<>>
  /\ fetches = 0
  /\ discovery = NoOutcome
  /\ metadata = Ok(Undefined)
  /\ response = NoResponse
  /\ call = NoCall
  /\ earlier = NoCall
  /\ other = NoOther

\* A handler that answers a guide request from the path alone as soon as it
\* has issued the fetch.
ReceiveAndAnswer(req) ==
  /\ pc = "idle"
  /\ request' = req
  /\ IF Route(req) = "guide"
     THEN /\ wellKnownUrl' = WellKnownUrl(req.url.str)
          /\ fetches' = fetches + 1
          /\ pc' = "awaitFetch"
          /\ response' = LandingResponse
     ELSE /\ response' = IF Route(req) = "favicon" THEN FaviconResponse ELSE LandingResponse
          /\ pc' = "responded"
          /\ UNCHANGED <<wellKnownUrl, fetches>>
  /\ UNCHANGED <<discovery, metadata, call, earlier, other>>

\* Lines 1117-1137 and 13-19: a request arrives; the handler answers at once or
\* calls fetchMCPMetadata, which issues its fetch.
Receive(req) ==
  /\ pc = "idle"
  /\ request' = req
  /\ IF Route(req) = "guide"
     THEN /\ wellKnownUrl' = WellKnownUrl(req.url.str)
          /\ fetches' = fetches + 1
          /\ pc' = "awaitFetch"
          /\ response' = response
     ELSE /\ response' = IF Route(req) = "favicon" THEN FaviconResponse ELSE LandingResponse
          /\ pc' = "responded"
          /\ UNCHANGED <<wellKnownUrl, fetches>>
  /\ UNCHANGED <<discovery, metadata, call, earlier, other>>

\* fetch rejects (no connection, or a URL it cannot parse): lines 57-60.
FetchRejects ==
  /\ pc = "awaitFetch"
  /\ discovery' = NetworkError
  /\ metadata' = fetchMCPMetadata(request.url.str, NetworkError)
  /\ pc' = "resolved"
  /\ UNCHANGED <<request, wellKnownUrl, fetches, response, call, earlier, other>>

\* fetch resolves with a response: lines 24-28.  Only a URL that parses can
\* be answered.
FetchResponds(ok) ==
  /\ pc = "awaitFetch"
  /\ ParseURL(wellKnownUrl).valid
  /\ IF ok
     THEN /\ pc' = "awaitJson"
          /\ UNCHANGED <<discovery, metadata>>
     ELSE /\ discovery' = NotOk
          /\ metadata' = fetchMCPMetadata(request.url.str, NotOk)
          /\ pc' = "resolved"
  /\ UNCHANGED <<request, wellKnownUrl, fetches, response, call, earlier, other>>

\* response.json() rejects: the body is no JSON text.
JsonRejects ==
  /\ pc = "awaitJson"
  /\ discovery' = BadJson
  /\ metadata' = fetchMCPMetadata(request.url.str, BadJson)
  /\ pc' = "resolved"
  /\ UNCHANGED <<request, wellKnownUrl, fetches, response, call, earlier, other>>

\* response.json() resolves with data: lines 28-56.
JsonResolves(data) ==
  /\ pc = "awaitJson"
  /\ discovery' = JsonBody(data)
  /\ metadata' = fetchMCPMetadata(request.url.str, JsonBody(data))
  /\ pc' = "resolved"
  /\ UNCHANGED <<request, wellKnownUrl, fetches, response, call, earlier, other>>

\* Lines 1137-1196: the handler resumes with the metadata and answers.
Respond ==
  /\ pc = "resolved"
  /\ response' = IF metadata.threw THEN Uncaught(metadata.error)
                 ELSE Handle(request, metadata.value)
  /\ pc' = "responded"
  /\ UNCHANGED <<request, wellKnownUrl, fetches, discovery, metadata, call, earlier, other>>

\* A caller of the package calls generateMCPConfig(mcpUrl, serverName).
CallGenerateMCPConfig(mcpUrl, serverName) ==
  /\ pc = "idle"
  /\ call' = [mcpUrl |-> mcpUrl, serverName |-> serverName,
              result |-> generateMCPConfig(mcpUrl, serverName)]
  /\ pc' = "called"
  /\ UNCHANGED <<request, wellKnownUrl, fetches, discovery, metadata, response, earlier, other>>

\* A caller of the package calls generateMCPInstallationGuide(mcpUrl, serverName).
CallGenerateMCPInstallationGuide(mcpUrl, serverName) ==
  /\ pc = "idle"
  /\ call' = [mcpUrl |-> mcpUrl, serverName |-> serverName,
              result |-> generateMCPInstallationGuide(mcpUrl, serverName)]
  /\ pc' = "calledGuide"
  /\ UNCHANGED <<request, wellKnownUrl, fetches, discovery, metadata, response, earlier, other>>

\* getBestIcon(icons) is called (line 98).
CallGetBestIcon(icons) ==
  /\ pc = "idle"
  /\ call' = [icons |-> icons, result |-> getBestIcon(icons)]
  /\ pc' = "calledIcon"
  /\ UNCHANGED <<request, wellKnownUrl, fetches, discovery, metadata, response, earlier, other>>

\* The request or the call is over; nothing of it is kept.
Finish ==
  /\ pc \in {"responded", "called", "calledIcon", "calledGuide"}
  /\ pc' = "idle"
  /\ request' = NoRequest
  /\ wellKnownUrl' = <<>>
  /\ fetches' = 0
  /\ discovery' = NoOutcome
  /\ metadata' = Ok(Undefined)
  /\ response' = NoResponse
  /\ call' = NoCall
  /\ UNCHANGED <<earlier, other>>

Next ==
  \/ \E req \in Requests : Receive(req)
  \/ FetchRejects
  \/ \E ok \in BOOLEAN : FetchResponds(ok)
  \/ JsonRejects
  \/ \E data \in Documents : JsonResolves(data)
  \/ Respond
  \/ \E mcpUrl \in LibraryUrls, serverName \in LibraryNames :
       CallGenerateMCPConfig(mcpUrl, serverName)
  \/ \E mcpUrl \in GuideUrls, serverName \in GuideNames :
       CallGenerateMCPInstallationGuide(mcpUrl, serverName)
  \/ \E icons \in IconLists : CallGetBestIcon(icons)
  \/ Finish

Spec == Init /\ [][Next]_vars

(***************************************************************************)
(* Calls of generateMCPConfig one after another, an earlier one kept for   *)
(* comparison.                                                             *)
(***************************************************************************)

RepeatUrls == {EndpointUrl, S("https://h/") \o <<8364>>, <<>>}

RepeatNames == Strings({97, 32}, MaxNameLen)

\* The call is over and is the one kept.
Remember ==
  /\ pc = "called"
  /\ earlier' = call
  /\ call' = NoCall
  /\ pc' = "idle"
  /\ UNCHANGED <<request, wellKnownUrl, fetches, discovery, metadata, response, other>>

RepeatNext ==
  \/ \E mcpUrl \in RepeatUrls, serverName \in RepeatNames :
       CallGenerateMCPConfig(mcpUrl, serverName)
  \/ Remember
  \/ Finish

RepeatSpec == Init /\ [][RepeatNext]_vars

(***************************************************************************)
(* Two requests in flight at once.  Each invocation of the handler has its *)
(* own locals (request, metadata, response); the worker has no module-     *)
(* level variable.  The second invocation takes the same steps as the      *)
(* first, at any time between the steps of the first.                      *)
(***************************************************************************)

ConcurrentRequests ==
  {[pathname |-> S("/"), url |-> Null],
   [pathname |-> S("/X"), url |-> JStr(EndpointUrl)],
   [pathname |-> S("/X/for/Cursor"), url |-> JStr(S("https://o/sse"))],
   [pathname |-> S("/X/guides"), url |-> JStr(EndpointUrl)],
   [pathname |-> S("/%E0%A4%A"), url |-> JStr(EndpointUrl)]}

ConcurrentDocuments == {CardHttp, CardSse, JArr(<<CardStdio, CardSse>>)}

\* A handler that resumed with the metadata resolved last, by whichever request.
AwaitedLatest(own, latest) == latest

\* Line 1137: const metadata = await fetchMCPMetadata(mcpUrl) is a local of
\* the invocation; the handler resumes with its own.
Awaited(own, latest) == own

\* Lines 1117-1137 for the second request.
OtherReceive(req) ==
  /\ other.pc = "idle"
  /\ other' = [other EXCEPT
                 !.request = req,
                 !.pc = IF Route(req) = "guide" THEN "awaitFetch" ELSE "responded",
                 !.response = IF Route(req) = "guide" THEN NoResponse
                              ELSE IF Route(req) = "favicon" THEN FaviconResponse
                              ELSE LandingResponse]
  /\ UNCHANGED <<pc, request, wellKnownUrl, fetches, discovery, metadata, response, call, earlier>>

\* Its fetch rejects, or resolves with a status that is not ok.
OtherFetchFails(outcome) ==
  /\ other.pc = "awaitFetch"
  /\ other' = [other EXCEPT
                 !.discovery = outcome,
                 !.metadata = fetchMCPMetadata(other.request.url.str, outcome),
                 !.pc = "resolved"]
  /\ UNCHANGED <<pc, request, wellKnownUrl, fetches, discovery, metadata, response, call, earlier>>

\* Its fetch resolves with an ok response.
OtherFetchResponds ==
  /\ other.pc = "awaitFetch"
  /\ ParseURL(WellKnownUrl(other.request.url.str)).valid
  /\ other' = [other EXCEPT !.pc = "awaitJson"]
  /\ UNCHANGED <<pc, request, wellKnownUrl, fetches, discovery, metadata, response, call, earlier>>

\* Its response.json() rejects or resolves.
OtherJsonSettles(outcome) ==
  /\ other.pc = "awaitJson"
  /\ other' = [other EXCEPT
                 !.discovery = outcome,
                 !.metadata = fetchMCPMetadata(other.request.url.str, outcome),
                 !.pc = "resolved"]
  /\ UNCHANGED <<pc, request, wellKnownUrl, fetches, discovery, metadata, response, call, earlier>>

OtherAnswer(req, resolved) ==
  IF resolved.threw THEN Uncaught(resolved.error) ELSE Handle(req, resolved.value)

\* Lines 1137-1196 for the second request.
OtherResponds ==
  /\ other.pc = "resolved"
  /\ other' = [other EXCEPT
                 !.response = OtherAnswer(other.request, Awaited(other.metadata, metadata)),
                 !.pc = "responded"]
  /\ UNCHANGED <<pc, request, wellKnownUrl, fetches, discovery, metadata, response, call, earlier>>

OtherFinish ==
  /\ other.pc = "responded"
  /\ other' = NoOther
  /\ UNCHANGED <<pc, request, wellKnownUrl, fetches, discovery, metadata, response, call, earlier>>

ConcurrentNext ==
  \/ \E req \in ConcurrentRequests : Receive(req)
  \/ FetchRejects
  \/ \E ok \in BOOLEAN : FetchResponds(ok)
  \/ JsonRejects
  \/ \E data \in ConcurrentDocuments : JsonResolves(data)
  \/ Respond
  \/ Finish
  \/ \E req \in ConcurrentRequests : OtherReceive(req)
  \/ \E outcome \in {NetworkError, NotOk} : OtherFetchFails(outcome)
  \/ OtherFetchResponds
  \/ \E outcome \in {BadJson} \cup {JsonBody(data) : data \in ConcurrentDocuments} :
       OtherJsonSettles(outcome)
  \/ OtherResponds
  \/ OtherFinish

ConcurrentSpec == Init /\ [][ConcurrentNext]_vars

(***************************************************************************)
(* What the specification says, in terms of the state                      *)
(***************************************************************************)

(***************************************************************************)
(* What a client does with a deep link or a configuration: atob and        *)
(* JSON.parse, the inverses of the encoders above.                         *)
(***************************************************************************)
\* 0..63 for a character of the base64 alphabet, -1 otherwise.
B64Val(c) ==
  IF \E n \in 0..63 : B64(n) = c THEN CHOOSE n \in 0..63 : B64(n) = c ELSE -1

RECURSIVE Base64Decode(_)
\* s: base64 characters without padding, Len(s) % 4 # 1.
Base64Decode(s) ==
  IF Len(s) < 2 THEN <<>>
  ELSE LET a == B64Val(s[1])
           b == B64Val(s[2])
           c == IF Len(s) >= 3 THEN B64Val(s[3]) ELSE 0
           d == IF Len(s) >= 4 THEN B64Val(s[4]) ELSE 0
           b1 == (a * 4) + (b \div 16)
           b2 == ((b % 16) * 16) + (c \div 4)
           b3 == ((c % 4) * 64) + d
       IN IF Len(s) = 2 THEN <<b1>>
          ELSE IF Len(s) = 3 THEN <<b1, b2>>
          ELSE <<b1, b2, b3>> \o Base64Decode(SubSeq(s, 5, Len(s)))

atob(s) ==
  LET pad == IF Len(s) % 4 = 0 /\ Len(s) >= 2 /\ s[Len(s)] = 61
             THEN IF s[Len(s) - 1] = 61 THEN 2 ELSE 1
             ELSE 0
      body == SubSeq(s, 1, Len(s) - pad)
  IN IF \/ Len(body) % 4 = 1
        \/ \E i \in 1..Len(body) : B64Val(body[i]) < 0
     THEN Throw("InvalidCharacterError")
     ELSE Ok(Base64Decode(body))

IsJSONSpace(c) == c \in {32, 9, 10, 13}

RECURSIVE SkipSpace(_, _)
SkipSpace(t, i) ==
  IF i <= Len(t) /\ IsJSONSpace(t[i]) THEN SkipSpace(t, i + 1) ELSE i

\* A parse step: ok, the value read (val) and the position after it (next).
Parsed(v, n) == [ok |-> TRUE, val |-> v, next |-> n]

ParseFail == [ok |-> FALSE, val |-> Undefined, next |-> 0]

\* The code unit of the escape letter c of "\c", or -1.
JSONUnescape(c) ==
  IF c \in {34, 92, 47} THEN c
  ELSE IF c = 98 THEN 8
  ELSE IF c = 102 THEN 12
  ELSE IF c = 110 THEN 10
  ELSE IF c = 114 THEN 13
  ELSE IF c = 116 THEN 9
  ELSE -1

RECURSIVE ParseChars(_, _)
\* The characters of a JSON string from position i to its closing quote.
ParseChars(t, i) ==
  IF i > Len(t) \/ t[i] < 32 THEN ParseFail
  ELSE IF t[i] = 34 THEN Parsed(<<>>, i + 1)
  ELSE IF t[i] # 92
    THEN LET rest == ParseChars(t, i + 1)
         IN IF rest.ok THEN Parsed(<<t[i]>> \o rest.val, rest.next) ELSE ParseFail
  ELSE IF i + 1 > Len(t) THEN ParseFail
  ELSE IF t[i + 1] = 117
    THEN IF /\ i + 5 <= Len(t)
            /\ \A k \in 2..5 : HexVal(t[i + k]) >= 0
         THEN LET c == (HexVal(t[i + 2]) * 4096) + (HexVal(t[i + 3]) * 256)
                         + (HexVal(t[i + 4]) * 16) + HexVal(t[i + 5])
                  rest == ParseChars(t, i + 6)
              IN IF rest.ok THEN Parsed(<<c>> \o rest.val, rest.next) ELSE ParseFail
         ELSE ParseFail
  ELSE IF JSONUnescape(t[i + 1]) < 0 THEN ParseFail
  ELSE LET rest == ParseChars(t, i + 2)
       IN IF rest.ok
          THEN Parsed(<<JSONUnescape(t[i + 1])>> \o rest.val, rest.next)
          ELSE ParseFail

\* props with key k set to v: a repeated key keeps its place and takes the
\* later value (CreateDataProperty).
SetProp(props, k, v) ==
  IF \E i \in 1..Len(props) : props[i].key = k
  THEN [i \in 1..Len(props) |-> IF props[i].key = k THEN Prop(k, v) ELSE props[i]]
  ELSE Append(props, Prop(k, v))

RECURSIVE ParseValue(_, _)
RECURSIVE ParseMembers(_, _, _)

\* The members of an object from position i (after "{" or ","), added to props.
ParseMembers(t, i, props) ==
  LET k == SkipSpace(t, i)
  IN IF k > Len(t) \/ t[k] # 34 THEN ParseFail
     ELSE LET key == ParseChars(t, k + 1)
              colon == IF key.ok THEN SkipSpace(t, key.next) ELSE 0
          IN IF ~key.ok \/ colon > Len(t) \/ t[colon] # 58 THEN ParseFail
             ELSE LET v == ParseValue(t, colon + 1)
                      after == IF v.ok THEN SkipSpace(t, v.next) ELSE 0
                  IN IF ~v.ok \/ after > Len(t) THEN ParseFail
                     ELSE IF t[after] = 125
                       THEN Parsed(JObj(SetProp(props, key.val, v.val)), after + 1)
                     ELSE IF t[after] = 44
                       THEN ParseMembers(t, after + 1, SetProp(props, key.val, v.val))
                     ELSE ParseFail

\* A JSON value at position i: a string or an object.
ParseValue(t, i) ==
  LET k == SkipSpace(t, i)
  IN IF k > Len(t) THEN ParseFail
     ELSE IF t[k] = 34
       THEN LET s == ParseChars(t, k + 1)
            IN IF s.ok THEN Parsed(JStr(s.val), s.next) ELSE ParseFail
     ELSE IF t[k] = 123
       THEN LET m == SkipSpace(t, k + 1)
            IN IF m <= Len(t) /\ t[m] = 125
               THEN Parsed(JObj(<<>>), m + 1)
               ELSE ParseMembers(t, k + 1, <<>>)
     ELSE ParseFail

\* JSON.parse(text): a SyntaxError unless text is exactly one value.
JSONParse(t) ==
  LET v == ParseValue(t, 1)
  IN IF v.ok /\ SkipSpace(t, v.next) > Len(t) THEN Ok(v.val) ELSE Throw("SyntaxError")

\* The request went through the metadata resolver (a name in the path and a
\* url parameter).
IsGuideRequest == request # NoRequest /\ Route(request) = "guide"

\* The descriptors a response shows; none when it is an error.
PageConfigs(resp) ==
  IF resp.status = 200 /\ resp.body.view \in {"list", "client", "guides"}
  THEN resp.body.configs
  ELSE <<>>

\* The parts of a descriptor a client connects with.
ConnectionParameters(config) ==
  [f \in DOMAIN config \cap {"client", "deepLink", "remoteCommand", "configJson"} |->
     config[f]]

ConnectionParametersOf(configs) ==
  [i \in 1..Len(configs) |-> ConnectionParameters(configs[i])]

\* C1: for a request with a name in the path and an endpoint URL, the
\* connection parameters of the descriptors shown (deepLink, remoteCommand,
\* configJson and the server-name key in them) are the same as those the
\* request gets when fetchMCPMetadata returns null.
C1_MetadataLeavesConnectionParameters ==
  (pc = "responded" /\ IsGuideRequest)
    => ConnectionParametersOf(PageConfigs(response))
         = ConnectionParametersOf(PageConfigs(Handle(request, Null)))

\* C2: generateMCPConfig returns the descriptor list for every pair of
\* strings and never throws.
C2_GenerateMCPConfigIsTotal == pc = "called" => ~call.result.threw

ClientNames ==
  <<S("Cursor"), S("VS Code"), S("Claude Desktop / Claude.ai"), S("Claude Code"),
    S("Windsurf"), S("Cline"), S("Gemini CLI"), S("ChatGPT")>>

ClientNamesOf(configs) == [i \in 1..Len(configs) |-> configs[i].client]

\* The same, for the calls that return.
ReturnedClientsAreFixed ==
  (pc = "called" /\ ~call.result.threw) => ClientNamesOf(call.result.value) = ClientNames

\* C3: for every (mcpUrl, serverName), generateMCPConfig returns exactly 8
\* descriptors, named Cursor, VS Code, Claude Desktop / Claude.ai, Claude Code,
\* Windsurf, Cline, Gemini CLI, ChatGPT, in this order.
C3_EightClientsInFixedOrder ==
  pc = "called" => (~call.result.threw /\ ClientNamesOf(call.result.value) = ClientNames)

\* The resolver has returned (or thrown) for the request being handled.
Resolved == pc \in {"resolved", "responded"} /\ IsGuideRequest

\* Selecting an entry from the list raised an exception.
SelectionRaised ==
  /\ discovery.kind = "json"
  /\ discovery.data.type = "array"
  /\ \E i \in 1..Len(discovery.data.items) :
       /\ CardMatch(discovery.data.items[i], request.url.str) = "throw"
       /\ \A j \in 1..(i - 1) :
            CardMatch(discovery.data.items[j], request.url.str) = "nomatch"

\* C4: fetchMCPMetadata never raises to its caller; a network error, a non-OK
\* status, a body that is no JSON, and an exception raised while selecting an
\* entry from a list each make it return null.
C4_ResolverNeverRaises ==
  Resolved =>
    /\ ~metadata.threw
    /\ (discovery.kind \in {"networkError", "notOk", "badJson"} \/ SelectionRaised)
         => metadata.value = Null

\* C4 witness: a list whose selection raised (a null entry, or an endpoint
\* that new URL cannot resolve), answered with null.
C4_Witness == Resolved /\ SelectionRaised /\ metadata = Ok(Null)

\* What the specification asks of a descriptor document: an object with
\* serverInfo.name, serverInfo.version, protocolVersion and a transport with a
\* type.
IsDescriptorDocument(v) ==
  /\ v.type = "object"
  /\ Get(v, S("serverInfo")).type = "object"
  /\ HasOwn(Get(v, S("serverInfo")), S("name"))
  /\ HasOwn(Get(v, S("serverInfo")), S("version"))
  /\ HasOwn(v, S("protocolVersion"))
  /\ Get(v, S("transport")).type = "object"
  /\ HasOwn(Get(v, S("transport")), S("type"))

\* The discovery response held one JSON value that is no descriptor document.
InvalidDocumentReceived ==
  /\ Resolved
  /\ discovery.kind = "json"
  /\ discovery.data.type # "array"
  /\ ~IsDescriptorDocument(discovery.data)

\* C5: a discovery response that parses as JSON but is no valid descriptor
\* document is treated as absent: fetchMCPMetadata returns null for it and the
\* response is the one given without metadata.
C5_InvalidDocumentIsAbsent ==
  InvalidDocumentReceived =>
    /\ metadata.value = Null
    /\ pc = "responded" => response = Handle(request, Null)

\* The card has a streamable-http or sse transport whose URL is exactly mcpUrl.
IsExactMatch(card, mcpUrl) ==
  /\ Get(Get(card, S("transport")), S("type"))
       \in {JStr(S("streamable-http")), JStr(S("sse"))}
  /\ TransportUrl(Get(card, S("transport")), mcpUrl)
       = [valid |-> TRUE, url |-> JStr(mcpUrl)]

ExactMatches(items, mcpUrl) == {i \in 1..Len(items) : IsExactMatch(items[i], mcpUrl)}

\* The one entry chosen among exact: the entry the resolver has to return.
OnlyEntry(items, exact) == items[CHOOSE i \in exact : TRUE]

\* The discovery response held a list of descriptor documents.
DocumentListReceived ==
  /\ Resolved
  /\ discovery.kind = "json"
  /\ discovery.data.type = "array"
  /\ \A i \in 1..Len(discovery.data.items) : IsDescriptorDocument(discovery.data.items[i])

ReturnsOnlyExactMatch(items, exact) ==
  Cardinality(exact) = 1 => metadata = Ok(OnlyEntry(items, exact))

\* C6: for a list of descriptor documents with exactly one entry whose
\* streamable-http or sse URL equals the queried URL, fetchMCPMetadata returns
\* that entry, whatever its position and the transports of the others.
C6_ExactMatchIsSelected ==
  DocumentListReceived =>
    ReturnsOnlyExactMatch(discovery.data.items,
                          ExactMatches(discovery.data.items, request.url.str))

\* The position of sub in s at or after from; 0 when sub does not occur in s at or after position from.
IndexOfFrom(s, sub, from) ==
  IF \E i \in from..(Len(s) + 1) : StartsWithAt(s, sub, i)
  THEN CHOOSE i \in from..(Len(s) + 1) :
         /\ StartsWithAt(s, sub, i)
         /\ \A j \in from..(i - 1) : ~StartsWithAt(s, sub, j)
  ELSE 0

\* E with its final path segment removed, followed by the well-known suffix,
\* for E of the form scheme://authority[path][?query][#fragment] whose path
\* starts at pathStart and ends before pathEnd.
ParentPathOf(E, pathStart, pathEnd) ==
  SubSeq(E, 1, pathStart - 1)
    \o SubSeq(E, pathStart,
              pathStart + LastIndexOf(SubSeq(E, pathStart, pathEnd - 1), 47) - 2)
    \o S("/.well-known/mcp")

PathEndsAt(E, pathStart) == ParentPathOf(E, pathStart, FirstOf(E, {63, 35}, pathStart))

AuthorityAt(E, authority) == PathEndsAt(E, FirstOf(E, {47, 63, 35}, authority))

ExpectedDiscoveryUrl(E) == AuthorityAt(E, IndexOfFrom(E, S("://"), 1) + 3)

IsHierarchicalUrl(E) == IndexOfFrom(E, S("://"), 1) > 1

\* C7: the one URL fetchMCPMetadata requests for the endpoint URL E is E with
\* its final path segment removed, followed by "/.well-known/mcp".
C7_DiscoveryUrlIsParentPath ==
  (pc = "awaitFetch" /\ IsHierarchicalUrl(request.url.str))
    => /\ fetches = 1
       /\ wellKnownUrl = ExpectedDiscoveryUrl(request.url.str)

\* JSON values with the same members, in any order.
RECURSIVE SameJson(_, _)
SameJson(a, b) ==
  IF a.type = "object" /\ b.type = "object"
  THEN /\ Len(a.props) = Len(b.props)
       /\ \A i \in 1..Len(a.props) :
            /\ HasOwn(b, a.props[i].key)
            /\ SameJson(a.props[i].val, Get(b, a.props[i].key))
  ELSE a = b

\* The descriptor of a client in the returned list.
ConfigOf(configs, client) ==
  configs[CHOOSE i \in 1..Len(configs) : configs[i].client = S(client)]

\* The raw value of the parameter key in the query of a deep link.
ParamIn(parts, key) ==
  LET i == CHOOSE k \in 1..Len(parts) : StartsWithAt(parts[k], key \o S("="), 1)
  IN SubSeq(parts[i], Len(key) + 2, Len(parts[i]))

RawQueryParam(link, key) ==
  ParamIn(Split(SubSeq(link, FirstOf(link, {63}, 1) + 1, Len(link)), 38), key)

\* A decoding that succeeded, parsed as JSON, is the value expected.
ParsesAs(parsed, expected) == ~parsed.threw /\ SameJson(parsed.value, expected)

ParsesTo(decoded, expected) ==
  /\ ~decoded.threw
  /\ ParsesAs(JSONParse(decoded.value), expected)

DeepLinksDecode(configs, mcpUrl, serverName) ==
  /\ ParsesTo(atob(RawQueryParam(ConfigOf(configs, "Cursor").deepLink, S("config"))),
              JObj(<<Prop(S("url"), JStr(mcpUrl))>>))
  /\ ParsesTo(decodeURIComponent(
                RawQueryParam(ConfigOf(configs, "VS Code").deepLink, S("config"))),
              JObj(<<Prop(S("type"), JStr(S("http"))), Prop(S("url"), JStr(mcpUrl))>>))
  /\ decodeURIComponent(RawQueryParam(ConfigOf(configs, "Cursor").deepLink, S("name")))
       = Ok(serverName)
  /\ decodeURIComponent(RawQueryParam(ConfigOf(configs, "VS Code").deepLink, S("name")))
       = Ok(serverName)

\* The same, for the calls that return.
ReturnedDeepLinksDecode ==
  (pc = "called" /\ ~call.result.threw)
    => DeepLinksDecode(call.result.value, call.mcpUrl, call.serverName)

\* C8: for every (mcpUrl, serverName), base64-decoding the config parameter of
\* the Cursor deep link and parsing it gives exactly {url: mcpUrl},
\* percent-decoding the config parameter of the VS Code deep link and parsing it
\* gives exactly {type: "http", url: mcpUrl}, and percent-decoding the name
\* parameter of either link gives serverName.
C8_DeepLinksDecode ==
  pc = "called" =>
    /\ ~call.result.threw
    /\ DeepLinksDecode(call.result.value, call.mcpUrl, call.serverName)

\* The clients whose descriptor carries a configJson, and those without.
ConfigJsonClients == {"Cursor", "VS Code", "Windsurf", "Cline", "Gemini CLI"}

NoConfigJsonClients == {"Claude Desktop / Claude.ai", "Claude Code", "ChatGPT"}

\* Where the configuration of a client keeps its servers and the URL of one.
ServersIn(json, client) ==
  IF client = "VS Code"
  THEN Get(Get(json, S("mcp")), S("servers"))
  ELSE Get(json, S("mcpServers"))

UrlField(client) ==
  IF client = "Windsurf" THEN S("serverUrl")
  ELSE IF client = "Gemini CLI" THEN S("httpUrl")
  ELSE S("url")

\* servers has one key, serverName, and its URL field is mcpUrl.
OnlyServer(servers, field, mcpUrl, serverName) ==
  /\ servers.type = "object"
  /\ Len(servers.props) = 1
  /\ servers.props[1].key = serverName
  /\ Get(servers.props[1].val, field) = JStr(mcpUrl)

KeepsServer(parsed, client, mcpUrl, serverName) ==
  /\ ~parsed.threw
  /\ OnlyServer(ServersIn(parsed.value, client), UrlField(client), mcpUrl, serverName)

\* The configJson of every client that has one, written as JSON text the way
\* the installation guide writes it and parsed back.
ConfigJsonRoundTrips(configs, mcpUrl, serverName) ==
  \A client \in ConfigJsonClients :
    KeepsServer(JSONParse(JSONStringifyIndent(ConfigOf(configs, client).configJson, 0)),
                client, mcpUrl, serverName)

\* The same, for the calls that return.
ReturnedConfigJsonRoundTrips ==
  (pc = "called" /\ ~call.result.threw)
    => ConfigJsonRoundTrips(call.result.value, call.mcpUrl, call.serverName)

\* C9: for every (mcpUrl, serverName) and each of the five descriptors with a
\* configJson, writing the configJson as JSON text and parsing it back gives an
\* object whose only server key is serverName and whose URL field is mcpUrl.
C9_ConfigJsonRoundTrips ==
  pc = "called" =>
    /\ ~call.result.threw
    /\ ConfigJsonRoundTrips(call.result.value, call.mcpUrl, call.serverName)

\* The configuration shapes of the specification's table.
McpServers(name, entry) ==
  JObj(<<Prop(S("mcpServers"), JObj(<<Prop(name, JObj(entry))>>))>>)

ExpectedConfigJson(client, url, name) ==
  IF client = "Cursor" THEN McpServers(name, <<Prop(S("url"), JStr(url))>>)
  ELSE IF client = "VS Code"
    THEN JObj(<<Prop(S("mcp"),
                     JObj(<<Prop(S("servers"),
                                 JObj(<<Prop(name,
                                             JObj(<<Prop(S("type"), JStr(S("http"))),
                                                    Prop(S("url"), JStr(url))>>))>>))>>))>>)
  ELSE IF client = "Windsurf" THEN McpServers(name, <<Prop(S("serverUrl"), JStr(url))>>)
  ELSE IF client = "Cline"
    THEN McpServers(name, <<Prop(S("url"), JStr(url)),
                            Prop(S("type"), JStr(S("streamableHttp")))>>)
  ELSE McpServers(name, <<Prop(S("httpUrl"), JStr(url))>>)

HasShape(config, expected) ==
  "configJson" \in DOMAIN config /\ SameJson(config.configJson, expected)

ConfigJsonShapes(configs, mcpUrl, serverName) ==
  /\ \A client \in ConfigJsonClients :
       HasShape(ConfigOf(configs, client), ExpectedConfigJson(client, mcpUrl, serverName))
  /\ \A client \in NoConfigJsonClients :
       "configJson" \notin DOMAIN ConfigOf(configs, client)

\* The same, for the calls that return.
ReturnedConfigJsonShapes ==
  (pc = "called" /\ ~call.result.threw)
    => ConfigJsonShapes(call.result.value, call.mcpUrl, call.serverName)

\* C10: for every (mcpUrl, serverName) the configJson of Cursor, VS Code,
\* Windsurf, Cline and Gemini CLI has exactly the shape of the table, and
\* Claude Desktop / Claude.ai, Claude Code and ChatGPT have no configJson.
C10_ConfigJsonShapes ==
  pc = "called" =>
    /\ ~call.result.threw
    /\ ConfigJsonShapes(call.result.value, call.mcpUrl, call.serverName)

\* serverName with every space a hyphen and every dot an underscore.
CommandToken(serverName) ==
  [i \in 1..Len(serverName) |->
     IF serverName[i] = 32 THEN 45
     ELSE IF serverName[i] = 46 THEN 95
     ELSE serverName[i]]

ExpectedCommand(mcpUrl, serverName) ==
  S("claude mcp add --transport http \"") \o CommandToken(serverName)
    \o S("\" ") \o mcpUrl

CommandIsSanitized(configs, mcpUrl, serverName) ==
  ConfigOf(configs, "Claude Code").remoteCommand = ExpectedCommand(mcpUrl, serverName)

\* The same, for the calls that return.
ReturnedCommandIsSanitized ==
  (pc = "called" /\ ~call.result.threw)
    => CommandIsSanitized(call.result.value, call.mcpUrl, call.serverName)

\* C11: for every serverName and mcpUrl, the Claude Code remoteCommand is
\* claude mcp add --transport http "<token>" <mcpUrl>, the token being
\* serverName with every space replaced by a hyphen and every dot by an
\* underscore, and mcpUrl the unmodified URL.
C11_CommandIsSanitized ==
  pc = "called" =>
    /\ ~call.result.threw
    /\ CommandIsSanitized(call.result.value, call.mcpUrl, call.serverName)

\* The install methods of a descriptor.
HasDeepLink(config) == "deepLink" \in DOMAIN config

HasRemoteCommand(config) == "remoteCommand" \in DOMAIN config

OneInstallMethod(config) ==
  /\ "instructions" \in DOMAIN config /\ Len(config.instructions) > 0
  /\ "iconUrl" \in DOMAIN config /\ Len(config.iconUrl) > 0
  /\ ~(HasDeepLink(config) /\ HasRemoteCommand(config))
  /\ HasDeepLink(config) <=> config.client \in {S("Cursor"), S("VS Code")}
  /\ HasRemoteCommand(config) <=> config.client = S("Claude Code")

\* C12: in every list generateMCPConfig returns, each descriptor has a
\* non-empty instructions string and an iconUrl, none has both a deepLink and a
\* remoteCommand, a deepLink is present exactly for Cursor and VS Code and a
\* remoteCommand exactly for Claude Code.
C12_OneInstallMethod ==
  (pc = "called" /\ ~call.result.threw)
    => \A i \in 1..Len(call.result.value) : OneInstallMethod(call.result.value[i])

\* C12 witness: a returned list with its deep-link, command and manual entries.
C12_Witness ==
  /\ pc = "called"
  /\ ~call.result.threw
  /\ Len(call.result.value) = 8
  /\ HasDeepLink(call.result.value[1])
  /\ HasRemoteCommand(call.result.value[4])
  /\ ~HasDeepLink(call.result.value[5]) /\ ~HasRemoteCommand(call.result.value[5])

\* The icon types the specification prefers, in its words.
IsPngOrJpeg(icon) ==
  Get(icon, S("mimeType")) \in {JStr(S("image/png")), JStr(S("image/jpeg")), JStr(S("image/jpg"))}

IsSvg(icon) == Get(icon, S("mimeType")) = JStr(S("image/svg+xml"))

\* The least index of items that is in the set wanted.
FirstIn(wanted) == CHOOSE i \in wanted : \A j \in wanted : i <= j

SrcOfFirst(items, pngOrJpeg, svg) ==
  IF pngOrJpeg # {} THEN Get(items[FirstIn(pngOrJpeg)], S("src"))
  ELSE IF svg # {} THEN Get(items[FirstIn(svg)], S("src"))
  ELSE Get(items[1], S("src"))

ExpectedIcon(icons) ==
  IF icons.type # "array" \/ Len(icons.items) = 0 THEN Null
  ELSE SrcOfFirst(icons.items,
                  {i \in 1..Len(icons.items) : IsPngOrJpeg(icons.items[i])},
                  {i \in 1..Len(icons.items) : IsSvg(icons.items[i])})

LineStarts(markdown) ==
  {1} \cup {i + 1 : i \in {k \in 1..Len(markdown) : markdown[k] = 10}}

LineAt(markdown, start) == SubSeq(markdown, start, FirstOf(markdown, {10}, start) - 1)

\* The elements of a set of numbers, in increasing order.
Ascending(numbers) ==
  [k \in 1..Cardinality(numbers) |->
     CHOOSE n \in numbers : Cardinality({m \in numbers : m < n}) = k - 1]

LinesFrom(markdown, starts) == [k \in 1..Len(starts) |-> LineAt(markdown, starts[k])]

LinesOf(markdown) == LinesFrom(markdown, Ascending(LineStarts(markdown)))

\* line without the spaces at its end.
RECURSIVE TrimRight(_)
TrimRight(line) ==
  IF Len(line) > 0 /\ line[Len(line)] = 32
  THEN TrimRight(SubSeq(line, 1, Len(line) - 1))
  ELSE line

IsHeading(line) == StartsWithAt(line, S("## "), 1)

IsRule(line) == line = S("---")

\* The first three lines that are not empty, and the headings, in order.
TextLines(lines) == SelectSeq(lines, LAMBDA line : Len(TrimRight(line)) > 0)

Headings(lines) == SelectSeq(lines, IsHeading)

GuideStartsWith(text, mcpUrl, serverName) ==
  /\ Len(text) >= 3
  /\ text[1] = S("# MCP Server Installation Guide")
  /\ TrimRight(text[2]) = S("**Server Name**: ") \o <<96>> \o serverName \o <<96>>
  /\ TrimRight(text[3]) = S("**Server URL**: ") \o <<96>> \o mcpUrl \o <<96>>
  /\ IsHeading(text[4])

GuideIsStructured(lines, mcpUrl, serverName) ==
  /\ GuideStartsWith(TextLines(lines), mcpUrl, serverName)
  /\ Headings(lines) = [i \in 1..Len(ClientNames) |-> S("## ") \o ClientNames[i]]

\* Neither argument holds a line feed.
OnOneLine(mcpUrl, serverName) ==
  /\ \A i \in 1..Len(mcpUrl) : mcpUrl[i] # 10
  /\ \A i \in 1..Len(serverName) : serverName[i] # 10

\* The same, for the calls that return and arguments without a line feed.
ReturnedGuideIsStructured ==
  (pc = "calledGuide" /\ ~call.result.threw /\ OnOneLine(call.mcpUrl, call.serverName))
    => GuideIsStructured(LinesOf(call.result.value), call.mcpUrl, call.serverName)

\* C14: for every (mcpUrl, serverName), generateMCPInstallationGuide returns a
\* document that starts with the title line, the server-name line and the
\* server-URL line, followed by exactly one "## <client>" section per
\* descriptor of generateMCPConfig, in catalog order.
C14_GuideIsStructured ==
  pc = "calledGuide" =>
    /\ ~call.result.threw
    /\ GuideIsStructured(LinesOf(call.result.value), call.mcpUrl, call.serverName)

\* The positions of the headings and of the rules among the lines.
HeadingsAt(lines) == {i \in 1..Len(lines) : IsHeading(lines[i])}

RulesAt(lines) == {i \in 1..Len(lines) : IsRule(lines[i])}

\* One rule between each two adjacent headings, none before the first heading
\* and none after the last section: n sections, n - 1 rules.
RulesSeparate(headings, rules) ==
  /\ headings # {}
  /\ Cardinality(rules) = Cardinality(headings) - 1
  /\ \A h \in headings :
       IF \E later \in headings : later > h
       THEN Cardinality({r \in rules :
                           /\ r > h
                           /\ \A later \in headings : later > h => r < later}) = 1
       ELSE \A r \in rules : r < h
  /\ \A r \in rules : \E h \in headings : h < r

RulesSeparateSections(lines) == RulesSeparate(HeadingsAt(lines), RulesAt(lines))

\* C15 as the specification states it: in the markdown of
\* generateMCPInstallationGuide there is exactly one "---" line between each
\* two adjacent client sections and none after the last, n - 1 in all.
C15_AsStated ==
  (pc = "calledGuide" /\ ~call.result.threw)
    => RulesSeparateSections(LinesOf(call.result.value))

\* C15: when neither serverName nor mcpUrl holds a line feed, the markdown of
\* generateMCPInstallationGuide has exactly one "---" line between each two
\* adjacent client sections and none after the last, n - 1 in all.
C15_RulesBetweenSections ==
  (pc = "calledGuide" /\ ~call.result.threw /\ OnOneLine(call.mcpUrl, call.serverName))
    => RulesSeparateSections(LinesOf(call.result.value))

\* C15 witness: a guide of 8 sections and 7 rules.
C15_Witness ==
  /\ pc = "calledGuide"
  /\ ~call.result.threw
  /\ OnOneLine(call.mcpUrl, call.serverName)
  /\ Cardinality(HeadingsAt(LinesOf(call.result.value))) = 8
  /\ Cardinality(RulesAt(LinesOf(call.result.value))) = 7

\* A call of generateMCPConfig with the arguments of the call kept has returned.
SameCallAgain ==
  /\ pc = "called"
  /\ earlier # NoCall
  /\ earlier.mcpUrl = call.mcpUrl
  /\ earlier.serverName = call.serverName

IsLandingPage(resp) ==
  /\ resp.status = 200
  /\ resp.contentType = "text/html; charset=utf-8"
  /\ resp.body.view = "landing"

\* The request has no url query parameter, or its path is empty.
NoEndpointOrNoPath(req) == req.url = Null \/ req.pathname = S("/")

\* C17 as the specification states it: a request without an endpoint URL, or
\* with an empty path, is answered with the landing page and a success status,
\* without any metadata fetch.
C17_AsStated ==
  (pc = "responded" /\ NoEndpointOrNoPath(request))
    => (IsLandingPage(response) /\ fetches = 0)

\* C17: a request without an endpoint URL (no url parameter, or an empty one),
\* or with an empty path, is answered with the landing page and a success
\* status, never an error, without any metadata fetch, unless its path is
\* /favicon.svg, which is answered with the icon.
C17_LandingWithoutEndpoint ==
  (pc = "responded" /\ (NoEndpointOrNoPath(request) \/ request.url = JStr(<<>>)))
    => /\ fetches = 0
       /\ IF request.pathname = S("/favicon.svg")
          THEN response.status = 200 /\ response.contentType = "image/svg+xml"
          ELSE IsLandingPage(response)

\* C17 witness: /X without a url parameter, answered with the landing page.
C17_Witness ==
  /\ pc = "responded"
  /\ request = [pathname |-> S("/X"), url |-> Null]
  /\ IsLandingPage(response)
  /\ fetches = 0

\* The handler ended with an HTTP response: a page, or the status-500 text
\* with the exception's message.
IsHttpResponse(resp) ==
  \/ resp.status = 200 /\ resp.body.view \in {"list", "client", "guides"}
  \/ /\ resp.status = 500
     /\ resp.contentType = "text/plain"
     /\ resp.body.view = "error"
     /\ resp.body.message # ""

\* C18: for every request with a non-empty path and an endpoint URL, the fetch
\* handler ends with an HTTP response; an exception raised while producing the
\* output, decoding the name or client segment or parsing the endpoint URL
\* included, becomes a status-500 plain-text response and none escapes.
C18_NoExceptionEscapes ==
  (pc = "responded" /\ IsGuideRequest) => IsHttpResponse(response)

\* The request is /{name}/for/{client}?url=... : its client segment.
IsClientRequest(parts) == Len(parts) = 3 /\ parts[2] = S("for")

\* The page shows one descriptor, the catalog entry named by the segment.
ShowsOnly(resp, client) ==
  /\ resp.status = 200
  /\ resp.body.view = "client"
  /\ Len(resp.body.configs) = 1
  /\ resp.body.configs[1].client = client.value
  /\ \E i \in 1..Len(ClientNames) : ClientNames[i] = client.value

ShowsClientOf(resp, parts) == ShowsOnly(resp, decodeURIComponent(parts[3]))

\* C19: for every request /{name}/for/{client}?url=..., whatever the client
\* segment is, the response is a page that shows exactly one descriptor, the
\* catalog entry whose client name equals the decoded segment.
C19_ClientPageShowsOneDescriptor ==
  (pc = "responded" /\ IsGuideRequest /\ IsClientRequest(PathParts(request.pathname)))
    => ShowsClientOf(response, PathParts(request.pathname))

\* The text the transport declares is a non-empty part of mcpUrl.
ContainedIn(declared, mcpUrl) ==
  declared.type = "string" /\ Len(declared.str) > 0 /\ Includes(mcpUrl, declared.str)

\* A match in the specification's words: a URL-based transport whose resolved
\* endpoint or url is mcpUrl, or whose declared endpoint or url is contained
\* in mcpUrl.
DeclaredMatch(transport, mcpUrl) ==
  IF Get(transport, S("type")) = JStr(S("streamable-http"))
  THEN ContainedIn(Get(transport, S("endpoint")), mcpUrl)
  ELSE /\ Get(transport, S("type")) = JStr(S("sse"))
       /\ ContainedIn(Get(transport, S("url")), mcpUrl)

Matches(card, mcpUrl) ==
  IsExactMatch(card, mcpUrl) \/ DeclaredMatch(Get(card, S("transport")), mcpUrl)

FirstOrNull(items) == IF Len(items) = 0 THEN Null ELSE items[1]

\* C20: when the discovery response is a list and no entry matches the
\* queried endpoint URL, fetchMCPMetadata returns the first entry of the list,
\* whatever its transport kind, and null when the list is empty.
C20_FallsBackToFirstEntry ==
  (/\ DocumentListReceived
   /\ \A i \in 1..Len(discovery.data.items) :
        ~Matches(discovery.data.items[i], request.url.str))
    => metadata = Ok(FirstOrNull(discovery.data.items))

\* A list of descriptor documents with at least one entry was received, and
\* none of its entries matches the queried URL.
UnmatchedListReceived ==
  /\ DocumentListReceived
  /\ Len(discovery.data.items) > 0
  /\ \A i \in 1..Len(discovery.data.items) :
       ~Matches(discovery.data.items[i], request.url.str)

IsEntryOf(v, items) == \E i \in 1..Len(items) : items[i] = v

FailedOrEmpty(outcome) ==
  \/ outcome.kind \in {"networkError", "notOk", "badJson"}
  \/ outcome.kind = "json" /\ outcome.data = JArr(<<>>)

ListReceived == Resolved /\ discovery.kind = "json" /\ discovery.data.type = "array"

\* An entry without a transport, or with a transport whose type is neither
\* streamable-http nor sse.
NotUrlBased(card) ==
  /\ card.type = "object"
  /\ \/ ~Truthy(Get(card, S("transport")))
     \/ Get(Get(card, S("transport")), S("type"))
          \notin {JStr(S("streamable-http")), JStr(S("sse"))}

\* The entry is not what find settles on, and it is returned only as the
\* first entry of a list in which find settled on nothing.
OnlyByFallback(items, i, found) ==
  /\ found.index # i
  /\ metadata = Ok(items[i]) => (found.index = 0 /\ items[1] = items[i])

\* C22: an entry that has no transport, or whose transport type is neither
\* streamable-http nor sse, never satisfies the match predicate, whatever the
\* queried URL; it is returned only through the first-entry fallback.
C22_NonUrlEntriesNeverMatch ==
  ListReceived =>
    \A i \in 1..Len(discovery.data.items) :
      NotUrlBased(discovery.data.items[i]) =>
        /\ CardMatch(discovery.data.items[i], request.url.str) = "nomatch"
        /\ OnlyByFallback(discovery.data.items, i,
                          FindFrom(discovery.data.items, request.url.str, 1))

\* C22 witness: find passed over a first entry that is not URL-based and the
\* second entry was returned.
C22_Witness ==
  /\ ListReceived
  /\ Len(discovery.data.items) = 2
  /\ NotUrlBased(discovery.data.items[1])
  /\ metadata = Ok(discovery.data.items[2])
  /\ discovery.data.items[2] # discovery.data.items[1]

\* The handler answered a guide request with an installation page.
PageShown ==
  /\ pc = "responded"
  /\ IsGuideRequest
  /\ response.status = 200
  /\ response.body.view \in {"list", "client"}

IsNonEmptyList(field) == field.type = "array" /\ Len(field.items) > 0

\* The badge the specification asks for: shown for "dynamic" or a non-empty
\* list, with the length after it for a list only.
BadgeFollows(badge, field) ==
  /\ badge.shown <=> (field = JStr(S("dynamic")) \/ IsNonEmptyList(field))
  /\ badge.counted <=> IsNonEmptyList(field)
  /\ badge.counted => badge.count = Len(field.items)

BadgesFollow(header, card) ==
  /\ BadgeFollows(header.resources, OptGet(card, S("resources")))
  /\ BadgeFollows(header.tools, OptGet(card, S("tools")))
  /\ BadgeFollows(header.prompts, OptGet(card, S("prompts")))

\* C23: each of the page's resources, tools and prompts flags is true exactly
\* when that field of the selected card is "dynamic" or a non-empty list
\* (false when metadata is absent), a count is shown exactly for a non-empty
\* list, and each flag follows from its own field alone.
C23_FlagsFollowFields ==
  PageShown => BadgesFollow(response.body.header, metadata.value)

IsTypedCapability(field) ==
  field.type \in {"undefined", "array"} \/ field = JStr(S("dynamic"))

\* The badges are as the specification asks when every field is missing, a
\* list or "dynamic".
TypedFlagsFollowFields ==
  (/\ PageShown
   /\ IsTypedCapability(OptGet(metadata.value, S("resources")))
   /\ IsTypedCapability(OptGet(metadata.value, S("tools")))
   /\ IsTypedCapability(OptGet(metadata.value, S("prompts"))))
    => BadgesFollow(response.body.header, metadata.value)

Fenced(language, text) ==
  <<96, 96, 96>> \o S(language) \o <<10>> \o text \o <<10, 96, 96, 96, 10, 10>>

\* The parts of a client section in the order the specification gives them;
\* a part the descriptor has no field for is empty.
HeadingPart(config) == S("## ") \o config.client \o <<10, 10>>

DeepLinkPart(config) ==
  IF "deepLink" \in DOMAIN config
  THEN S("[") \o <<55357, 56599>> \o S(" Install via deep link](") \o config.deepLink
         \o S(")") \o <<10, 10>>
  ELSE <<>>

CommandPart(config) ==
  IF "remoteCommand" \in DOMAIN config
  THEN S("**Command:**") \o <<10>> \o Fenced("bash", config.remoteCommand)
  ELSE <<>>

InstructionsPart(config) == S("**Instructions:** ") \o config.instructions \o <<10, 10>>

ConfigurationPart(config) ==
  IF "configJson" \in DOMAIN config
  THEN S("**Configuration:**") \o <<10>>
         \o Fenced("json", JSONStringifyIndent(config.configJson, 0))
  ELSE <<>>

\* The first member of the printed object is on its own line after two spaces.
IndentedByTwo(config) ==
  "configJson" \in DOMAIN config =>
    StartsWithAt(JSONStringifyIndent(config.configJson, 0),
                 S("{") \o <<10>> \o S("  \""), 1)

SectionInOrder(config) ==
  HeadingPart(config) \o DeepLinkPart(config) \o CommandPart(config)
    \o InstructionsPart(config) \o ConfigurationPart(config)

RuleAfter(i, n) == IF i < n THEN S("---") \o <<10, 10>> ELSE <<>>

\* The text after the three header lines is the sections of the descriptors,
\* each with its parts in order, with a rule between two sections.
SectionsInOrder(markdown, header, configs) ==
  /\ \A i \in 1..Len(configs) : IndentedByTwo(configs[i])
  /\ markdown = header \o Concat([i \in 1..Len(configs) |->
                                 SectionInOrder(configs[i]) \o RuleAfter(i, Len(configs))])

\* C24: in the guide each client section is, in this order, the heading, a
\* deep-link line exactly when the descriptor has a deepLink, a fenced bash
\* block exactly when it has a remoteCommand, the instructions line, and a
\* fenced JSON block of the configJson printed with 2-space indent exactly
\* when it has a configJson.
C24_SectionPartsInOrder ==
  (pc = "calledGuide" /\ ~call.result.threw) =>
    SectionsInOrder(call.result.value,
                    GuideHeader(call.mcpUrl, call.serverName),
                    generateMCPConfig(call.mcpUrl, call.serverName).value)

\* C24 witness: a guide was produced for a name with a space and a dot.
C24_Witness ==
  /\ pc = "calledGuide"
  /\ ~call.result.threw
  /\ call.serverName = S("My Server.v2")
  /\ call.mcpUrl = EndpointUrl

InHand == request # NoRequest

IsFaviconRequest == request.pathname = S("/favicon.svg")

HasPath == Len(PathParts(request.pathname)) > 0

\* C25 as stated: a request other than the favicon's with a non-empty path
\* and a url parameter, whatever its value, has issued exactly one fetch.
C25_AsStated ==
  (InHand /\ ~IsFaviconRequest /\ HasPath /\ request.url # Null) => fetches = 1

\* C25: while a request is handled and after it is answered, whatever the
\* fetch did, the number of metadata fetches issued for it is one when its
\* path is not /favicon.svg and not empty and its url parameter is not empty,
\* and zero otherwise; the fetch is never issued again.
C25_OneFetchPerGuideRequest ==
  InHand =>
    fetches = IF ~IsFaviconRequest /\ HasPath /\ request.url \notin {Null, JStr(<<>>)}
              THEN 1 ELSE 0

\* C25 witness: the single fetch of a request failed and the request was
\* answered without another fetch.
C25_Witness ==
  /\ pc = "responded"
  /\ InHand
  /\ discovery.kind = "networkError"
  /\ fetches = 1

\* The answer to a request handled alone whose discovery fetch did outcome.
AnswerTo(req, resolved) ==
  IF Route(req) = "favicon" THEN FaviconResponse
  ELSE IF Route(req) = "landing" THEN LandingResponse
  ELSE IF resolved.threw THEN Uncaught(resolved.error)
  ELSE Handle(req, resolved.value)

AnswerAlone(req, outcome) ==
  AnswerTo(req, IF Route(req) = "guide" THEN fetchMCPMetadata(req.url.str, outcome)
                ELSE Ok(Undefined))

\* C26: with two requests in flight, interleaved in any way at their fetch
\* and json suspension points, each response is the one the request gets
\* when handled alone with the same discovery result.
C26_AnswersAsIfAlone ==
  /\ pc = "responded" => response = AnswerAlone(request, discovery)
  /\ other.pc = "responded" => other.response = AnswerAlone(other.request, other.discovery)

\* C26 witness: two different guide requests, resolved with different
\* metadata, have both been answered.
C26_Witness ==
  /\ pc = "responded"
  /\ other.pc = "responded"
  /\ Route(request) = "guide"
  /\ Route(other.request) = "guide"
  /\ request # other.request
  /\ metadata # other.metadata
  /\ response # other.response

FetchPending == pc \in {"awaitFetch", "awaitJson"}

Answered == response # NoResponse

\* The name on a page that was rendered is the one taken from the resolved
\* metadata, or from the path when the metadata has no title.
NameFromResolution ==
  (response.status = 200 /\ response.body.view \in {"list", "client", "guides"})
    => response.body.serverName = ServerName(request, metadata.value).value

\* C27: for a request with a non-empty path and an endpoint URL, no response,
\* success or error, exists while the metadata fetch is pending; a response
\* exists only after the resolution has settled, and a rendered page carries
\* the name the settled metadata gives.  A fetch that never settles leaves
\* the request without a response.
C27_ResponseAfterResolution ==
  (InHand /\ Route(request) = "guide") =>
    /\ FetchPending => (~Answered /\ discovery = NoOutcome)
    /\ Answered => (pc = "responded" /\ discovery # NoOutcome /\ NameFromResolution)

\* C27 witness: a page was rendered after the resolution gave a card with a
\* title.
C27_Witness ==
  /\ InHand
  /\ Route(request) = "guide"
  /\ pc = "responded"
  /\ response.status = 200
  /\ metadata = Ok(CardHttp)
  /\ response.body.serverName = S("Card Title")

SameOrigin(a, b) == b.valid /\ b.scheme = a.scheme /\ b.hostname = a.hostname

\* C28: the discovery URL that is fetched for an endpoint URL has the scheme
\* and the host of the endpoint URL, also when the endpoint URL has no path,
\* ends with a slash, or has a slash in its query.
C28_DiscoverySameOrigin ==
  (pc = "awaitFetch" /\ ParseURL(request.url.str).valid)
    => SameOrigin(ParseURL(request.url.str), ParseURL(wellKnownUrl))

\* Endpoint URLs with a path keep their scheme and host in the discovery URL.
PathedDiscoverySameOrigin ==
  (/\ pc = "awaitFetch"
   /\ ParseURL(request.url.str).valid
   /\ request.url.str # S("https://h"))
    => SameOrigin(ParseURL(request.url.str), ParseURL(wellKnownUrl))

ActiveTabs(tabs) == {i \in 1..Len(tabs) : tabs[i].active}

OneActiveTabOf(tabs, config) ==
  /\ Cardinality(ActiveTabs(tabs)) = 1
  /\ \A i \in ActiveTabs(tabs) : tabs[i].client = config.client

ClientPageShown == PageShown /\ response.body.view = "client"

\* C29: on a client page, exactly one tab of the tab bar is marked active and
\* it is the tab of the descriptor that is displayed, however the client
\* segment is spelled.
C29_OneActiveTab ==
  ClientPageShown => OneActiveTabOf(response.body.tabs, response.body.configs[1])

\* The tab is marked when the segment is spelled as the descriptor's name.
ExactSpellingHasActiveTab ==
  (ClientPageShown /\ response.body.selectedClient.str = response.body.configs[1].client)
    => OneActiveTabOf(response.body.tabs, response.body.configs[1])

HasIcons(icons) == icons.type = "array" /\ Len(icons.items) > 0

IsFaviconFallback(icon) ==
  /\ icon.type = "string"
  /\ StartsWithAt(icon.str, S("https://www.google.com/s2/favicons?domain="), 1)

\* The icon shown is the choice of getBestIcon from a list of the card that
\* has icons; the favicon of the endpoint's domain is shown when neither list
\* has one.
IconFollows(serverIcon, infoIcons, icons) ==
  IF HasIcons(infoIcons) \/ HasIcons(icons)
  THEN \/ HasIcons(infoIcons) /\ serverIcon = ExpectedIcon(infoIcons)
       \/ HasIcons(icons) /\ serverIcon = ExpectedIcon(icons)
  ELSE IsFaviconFallback(serverIcon)

\* C30: when the selected card has an icon in serverInfo.icons or in its
\* top-level icons, the page shows the icon getBestIcon chooses among the
\* card's icons; the favicon fallback is shown only when metadata is absent or
\* the card has no icon in either list.
C30_IconFromCard ==
  PageShown =>
    IconFollows(response.body.header.serverIcon,
                OptGet(OptGet(metadata.value, S("serverInfo")), S("icons")),
                OptGet(metadata.value, S("icons")))

\* The icon is as the claim says unless serverInfo.icons is an empty list.
IconFromCardUnlessEmptyInfoIcons ==
  (PageShown /\ OptGet(OptGet(metadata.value, S("serverInfo")), S("icons")) # JArr(<<>>))
    => IconFollows(response.body.header.serverIcon,
                   OptGet(OptGet(metadata.value, S("serverInfo")), S("icons")),
                   OptGet(metadata.value, S("icons")))

====
